---- MODULE Spec2Model ----
(***************************************************************************)
(* Model of the translation service of translate-any-pdf:                  *)
(*   - the job orchestrator of src/api.py (TranslationTaskManager, the     *)
(*     /translate, /task/{id}/status and /task/{id}/cancel handlers, the   *)
(*     pool worker process_translation_task and its progress monitor),     *)
(*   - the translation client and segmenter of src/document_translator.py  *)
(*     (translate_chunk, translate_with_context).                          *)
(* The specifications share the variables:                                 *)
(*   Spec          the orchestrator with one job in full detail,           *)
(*   SpecClient    one translator instance (translate_chunk and            *)
(*                 translate_with_context),                                *)
(*   SpecPool      several jobs in the pool and translate_docx's working   *)
(*                 directory,                                              *)
(*   SpecRegistry  the registry over time (clock and cleanup_old_tasks),   *)
(*   SpecLock      the lock discipline of the registry,                    *)
(*   SpecPass      one pass over a document's paragraphs or text blocks,   *)
(*   SpecText      the text functions (should_translate_text,              *)
(*                 translate_paragraph_node, translate_docx_content) on    *)
(*                 bounded inputs,                                         *)
(*   SpecQuota     the usage counter under concurrent translations,        *)
(*   SpecFairPool  the registry under a fairly scheduled pool,             *)
(*   SpecSessions  sign-in, sign-out and token verification.               *)
(***************************************************************************)
EXTENDS Integers, Sequences, FiniteSets, TLC

(* ---------------------------------------------------------------- bounds *)
MaxTasks == 1
MaxDocs == 1
MaxSeg == 2
MaxClock == 1
MaxSentences == 2
MinChunkSize == 9
MaxCalls == 2
PoolJobs == 4
MaxNodes == 3
MaxChars == 3
MaxRuns == 3
MaxRunWords == 2
MaxTranslated == 4
QuotaJobs == 2
MaxTokens == 3

(* ------------------------------------------------------ program constants *)
MB == 1048576
BackgroundThresholdMB == 2
MAX_CONCURRENT_TRANSLATIONS == 3
TRANSLATION_TIMEOUT == 1800
CleanupHours == 24
FreeLimit == 5
max_retries == 3
TickSeconds == 90000
SessionSeconds == 86400

\* The user ids are interchangeable: documents are uploaded by Owner, and the
\* other user is the one whose requests on Owner's documents and jobs are refused.
Owner == "u1"
Users == {Owner, "u2"}
TaskIds == 1..MaxTasks
DocIds == 1..MaxDocs
FileSizes == {BackgroundThresholdMB * MB, BackgroundThresholdMB * MB + 1, 50 * MB}
None == "None"

VARIABLES
    TRANSLATOR_AVAILABLE, \* api.py: module flag set by the import of the translator
    tasks,        \* task_manager.tasks: task id -> job record
    poolQueue,    \* task_manager.executor: submitted jobs no pool thread has picked up
    documents,    \* api.py documents: doc id -> document record
    users,        \* api.py users: user id -> account record
    now,          \* wall clock, in seconds
    h,            \* the request the event loop is handling (or idle)
    wpc,          \* per job: position of its pool worker in process_translation_task
    wloc,         \* per job: the worker's translator counters, output file, locals
    mpc,          \* per job: position of its progress-monitor thread
    mloc,         \* per job: locals of its progress monitor
    supported,    \* translator instance: GoogleTranslator accepts its language pair
    service,      \* how the external translation service behaves
    translator,   \* self.translator: the session object, or None
    translation_cache,  \* self.translation_cache
    context_cache,      \* self.context_cache
    cpc,          \* position of the caller inside the translator
    frame,        \* locals of the running translate_with_context / translate_chunk
    log,          \* the finished top-level calls, in order
    temp_dir,     \* the directory temp_translate next to document_translator.py
    cleanup_call, \* hours argument of the cleanup_old_tasks call of this step
    lock,         \* TranslationTaskManager.lock: the thread holding it, or None
    threads,      \* per thread: the steps left of the call it is running
    pass,         \* one pass over a document's paragraphs or blocks
    applied,      \* the last call of a text function: its arguments and result
    sessions,     \* the open sessions, in the order they were created
    issued        \* the number of tokens generate_token has handed out

jobVars == <<TRANSLATOR_AVAILABLE, tasks, poolQueue, documents, users, now, h,
             wpc, wloc, mpc, mloc>>
clientVars == <<supported, service, translator, translation_cache, context_cache,
                cpc, frame, log>>
poolVars == <<temp_dir, cleanup_call>>
lockVars == <<lock, threads>>
sessionVars == <<sessions, issued>>
auxVars == <<poolVars, lockVars, pass, applied, sessionVars>>
vars == <<jobVars, clientVars, auxVars>>

(* ------------------------------------------------ TranslationTaskManager *)

\* The record add_task stores. started_at / completed_at are kept as "set or
\* None"; updated_at, a timestamp nothing reads, is left out.
NewTask(task_id, user_id, doc_id) ==
    [task_id |-> task_id, user_id |-> user_id, doc_info |-> doc_id,
     status |-> "queued", progress |-> 0, message |-> "Waiting in queue...",
     created_at |-> now, started_at |-> FALSE, completed_at |-> FALSE,
     error |-> None, result |-> None]

add_task(ts, task_id, user_id, doc_id) ==
    [j \in DOMAIN ts \cup {task_id} |->
        IF j = task_id THEN NewTask(task_id, user_id, doc_id) ELSE ts[j]]

\* Mutant of update_task: a record is made for an id that is not registered.
update_task_unguarded(ts, task_id, kwargs) ==
    [j \in DOMAIN ts \cup {task_id} |->
        LET old == IF j \in DOMAIN ts THEN ts[j] ELSE NewTask(j, Owner, j)
        IN  IF j = task_id
            THEN [f \in DOMAIN old |-> IF f \in DOMAIN kwargs THEN kwargs[f] ELSE old[f]]
            ELSE old]

\* dict.update(kwargs) on the record, only when the id is still registered.
update_task(ts, task_id, kwargs) ==
    IF task_id \in DOMAIN ts
    THEN [ts EXCEPT ![task_id] =
            [f \in DOMAIN @ |-> IF f \in DOMAIN kwargs THEN kwargs[f] ELSE @[f]]]
    ELSE ts

\* Mutant of cleanup_old_tasks: a record exactly `hours` old is removed too.
cleanup_old_tasks_inclusive(ts, hours) ==
    LET cutoff_time == now - hours * 3600
        old_tasks == {j \in DOMAIN ts : ts[j].created_at <= cutoff_time}
    IN [j \in DOMAIN ts \ old_tasks |-> ts[j]]

cleanup_old_tasks(ts, hours) ==
    LET cutoff_time == now - hours * 3600
        old_tasks == {j \in DOMAIN ts : ts[j].created_at < cutoff_time}
    IN [j \in DOMAIN ts \ old_tasks |-> ts[j]]

(* ------------------------------------------------------- request handlers *)

Idle == [pc |-> "idle"]

\* What a handler returns (or the HTTPException it raises) for request op on
\* document or job id, before the event loop takes the next request.
Respond(op, id, code) == [pc |-> "respond", op |-> op, id |-> id, code |-> code]

\* uuid4: an id no job has had before.
FreshTaskIds == {j \in TaskIds : wpc[j] = "none"}
NextTaskId == CHOOSE j \in FreshTaskIds : \A k \in FreshTaskIds : j <= k

LimitReached(u) == users[u].translations_used >= FreeLimit

\* POST /upload: stores the file and its metadata.
Upload(u, size) ==
    /\ h.pc = "idle"
    /\ ~LimitReached(u)
    /\ \E d \in DocIds \ DOMAIN documents :
        /\ \A e \in DocIds \ DOMAIN documents : d <= e
        /\ documents' = [e \in DOMAIN documents \cup {d} |->
                            IF e = d
                            THEN [user_id |-> u, file_size |-> size, status |-> "uploaded",
                                  task_id |-> 0, error |-> None, translated_path |-> None]
                            ELSE documents[e]]
        /\ h' = Respond("upload", d, 200)
    /\ UNCHANGED <<clientVars, auxVars>>
    /\ UNCHANGED <<TRANSLATOR_AVAILABLE, tasks, poolQueue, users, now, wpc, wloc, mpc, mloc>>

\* Mutant of use_background: the 5 MB "large file" test of the upload handler.
use_background_upload_threshold(file_size) == file_size > 5 * MB

use_background(file_size) == file_size > BackgroundThresholdMB * MB

\* The arguments and locals of one process_translation_task call.
WorkerLocals(u, d) ==
    [user |-> u, doc |-> d, total_segments |-> 0, translated_segments |-> 0,
     inflight |-> FALSE, output |-> FALSE, used |-> 0, error |-> None]

\* POST /translate by user u for document d, up to the return of the
\* background branch or the start of the synchronous one.
TranslateRequest(u, d, file_exists) ==
    /\ h.pc = "idle"
    /\ IF ~TRANSLATOR_AVAILABLE THEN
            /\ h' = Respond("translate", d, 503)
            /\ UNCHANGED <<tasks, poolQueue, documents, wpc, wloc>>
       ELSE IF d \notin DOMAIN documents THEN
            /\ h' = Respond("translate", d, 404)
            /\ UNCHANGED <<tasks, poolQueue, documents, wpc, wloc>>
       ELSE IF documents[d].user_id # u THEN
            /\ h' = Respond("translate", d, 403)
            /\ UNCHANGED <<tasks, poolQueue, documents, wpc, wloc>>
       ELSE IF LimitReached(u) THEN
            /\ h' = Respond("translate", d, 403)
            /\ UNCHANGED <<tasks, poolQueue, documents, wpc, wloc>>
       ELSE IF ~file_exists THEN
            /\ documents' = [documents EXCEPT ![d].status = "failed",
                                              ![d].error = "Source file not found"]
            /\ h' = Respond("translate", d, 404)
            /\ UNCHANGED <<tasks, poolQueue, wpc, wloc>>
       ELSE IF use_background(documents[d].file_size) THEN
            /\ FreshTaskIds # {}
            /\ LET task_id == NextTaskId IN
                /\ tasks' = add_task(tasks, task_id, u, d)
                /\ documents' = [documents EXCEPT ![d].task_id = task_id,
                                                  ![d].status = "queued"]
                /\ poolQueue' = Append(poolQueue, task_id)
                /\ wpc' = [wpc EXCEPT ![task_id] = "queued"]
                /\ wloc' = [wloc EXCEPT ![task_id] = WorkerLocals(u, d)]
                /\ h' = Respond("translate", d, 200)
       ELSE
            /\ documents' = [documents EXCEPT ![d].status = "translating"]
            /\ h' = [pc |-> "sync", op |-> "translate", id |-> d, user |-> u]
            /\ UNCHANGED <<tasks, poolQueue, wpc, wloc>>
    /\ UNCHANGED <<clientVars, auxVars>>
    /\ UNCHANGED <<TRANSLATOR_AVAILABLE, users, now, mpc, mloc>>

\* The synchronous branch: translate_document on the event-loop thread, then
\* the document and usage updates, or the except branch.
SyncFinish(ok) ==
    /\ h.pc = "sync"
    /\ IF ok
       THEN /\ documents' = [documents EXCEPT ![h.id].status = "completed",
                                              ![h.id].translated_path = "out"]
            /\ users' = [users EXCEPT ![h.user].translations_used = @ + 1]
            /\ h' = Respond("translate", h.id, 200)
       ELSE /\ documents' = [documents EXCEPT ![h.id].status = "failed",
                                              ![h.id].error = "error"]
            /\ users' = users
            /\ h' = Respond("translate", h.id, 500)
    /\ UNCHANGED <<clientVars, auxVars>>
    /\ UNCHANGED <<TRANSLATOR_AVAILABLE, tasks, poolQueue, now, wpc, wloc, mpc, mloc>>

\* Mutant of CancelRequest: the status test forgets "failed".
CancelRequest_completed_only(u, j) ==
    /\ h.pc = "idle"
    /\ wpc[j] # "none"
    /\ IF j \notin DOMAIN tasks THEN h' = Respond("cancel", j, 404)
       ELSE IF tasks[j].user_id # u THEN h' = Respond("cancel", j, 403)
       ELSE IF tasks[j].status \in {"completed"}
            THEN h' = Respond("cancel", j, 400)
       ELSE h' = [pc |-> "cancel_write", op |-> "cancel", id |-> j, user |-> u]
    /\ UNCHANGED <<clientVars, auxVars>>
    /\ UNCHANGED <<TRANSLATOR_AVAILABLE, tasks, poolQueue, documents, users, now,
                   wpc, wloc, mpc, mloc>>

\* POST /task/{j}/cancel by user u, up to the status test.
CancelRequest(u, j) ==
    /\ h.pc = "idle"
    /\ wpc[j] # "none"
    /\ IF j \notin DOMAIN tasks THEN h' = Respond("cancel", j, 404)
       ELSE IF tasks[j].user_id # u THEN h' = Respond("cancel", j, 403)
       ELSE IF tasks[j].status \in {"completed", "failed"}
            THEN h' = Respond("cancel", j, 400)
       ELSE h' = [pc |-> "cancel_write", op |-> "cancel", id |-> j, user |-> u]
    /\ UNCHANGED <<clientVars, auxVars>>
    /\ UNCHANGED <<TRANSLATOR_AVAILABLE, tasks, poolQueue, documents, users, now,
                   wpc, wloc, mpc, mloc>>

\* ... and its update_task call and return.
CancelWrite ==
    /\ h.pc = "cancel_write"
    /\ tasks' = update_task(tasks, h.id,
                    [status |-> "cancelled", message |-> "Task cancelled by user",
                     completed_at |-> TRUE])
    /\ h' = Respond("cancel", h.id, 200)
    /\ UNCHANGED <<clientVars, auxVars>>
    /\ UNCHANGED <<TRANSLATOR_AVAILABLE, poolQueue, documents, users, now,
                   wpc, wloc, mpc, mloc>>

\* The response is sent; the event loop is free again.
Return ==
    /\ h.pc = "respond"
    /\ h' = Idle
    /\ UNCHANGED <<clientVars, auxVars>>
    /\ UNCHANGED <<TRANSLATOR_AVAILABLE, tasks, poolQueue, documents, users, now,
                   wpc, wloc, mpc, mloc>>

(* ------------------------------------------- process_translation_task *)

Running == {j \in TaskIds : wpc[j] \notin {"none", "queued", "done"}}

\* A free pool thread takes the oldest submitted job and enters
\* process_translation_task: the first update_task.
WorkerStart(j) ==
    /\ poolQueue # <<>>
    /\ j = Head(poolQueue)
    /\ Cardinality(Running) < MAX_CONCURRENT_TRANSLATIONS
    /\ poolQueue' = Tail(poolQueue)
    /\ tasks' = update_task(tasks, j,
                    [status |-> "processing", started_at |-> TRUE,
                     message |-> "Initializing translation..."])
    /\ wpc' = [wpc EXCEPT ![j] = "started"]
    /\ UNCHANGED <<clientVars, auxVars>>
    /\ UNCHANGED <<TRANSLATOR_AVAILABLE, documents, users, now, h, wloc, mpc, mloc>>

\* The source-file test, then progress=10.
WorkerLoad(j, file_exists) ==
    /\ wpc[j] = "started"
    /\ IF file_exists
       THEN /\ tasks' = update_task(tasks, j,
                            [progress |-> 10, message |-> "Loading document..."])
            /\ wpc' = [wpc EXCEPT ![j] = "loaded"]
            /\ wloc' = wloc
       ELSE /\ tasks' = tasks
            /\ wpc' = [wpc EXCEPT ![j] = "except"]
            /\ wloc' = [wloc EXCEPT ![j].error = "Source file not found"]
    /\ UNCHANGED <<clientVars, auxVars>>
    /\ UNCHANGED <<TRANSLATOR_AVAILABLE, poolQueue, documents, users, now, h, mpc, mloc>>

\* The translator is built, the progress monitor thread is started, then
\* progress=20.
WorkerStartMonitor(j) ==
    /\ wpc[j] = "loaded"
    /\ mpc' = [mpc EXCEPT ![j] = "first"]
    /\ mloc' = [mloc EXCEPT ![j] = [start_time |-> now, progress |-> 0]]
    /\ tasks' = update_task(tasks, j,
                    [progress |-> 20, message |-> "Starting translation..."])
    /\ wpc' = [wpc EXCEPT ![j] = "translate"]
    /\ UNCHANGED <<clientVars, auxVars>>
    /\ UNCHANGED <<TRANSLATOR_AVAILABLE, poolQueue, documents, users, now, h, wloc>>

\* The translator's progress counters (hasattr(translator, 'total_segments')):
\* the total is counted up front, the translated count grows by one per segment.
count_segments(w, n) == [w EXCEPT !.total_segments = n]
segment_translated(w) == [w EXCEPT !.translated_segments = @ + 1]

\* translator.translate_document: the document is opened and its
\* translatable segments counted (0: nothing to translate, or a translator
\* that keeps no counters), or the input is rejected.
TranslateBegin(j, n, ok) ==
    /\ wpc[j] = "translate"
    /\ IF ok
       THEN /\ wloc' = [wloc EXCEPT ![j] = count_segments(@, n)]
            /\ wpc' = [wpc EXCEPT ![j] = "chunks"]
       ELSE /\ wloc' = [wloc EXCEPT ![j].error = "Unsupported file type"]
            /\ wpc' = [wpc EXCEPT ![j] = "except"]
    /\ UNCHANGED <<clientVars, auxVars>>
    /\ UNCHANGED <<TRANSLATOR_AVAILABLE, tasks, poolQueue, documents, users, now, h,
                   mpc, mloc>>

\* One segment is sent to the external service ...
ChunkDispatch(j) ==
    /\ wpc[j] = "chunks"
    /\ ~wloc[j].inflight
    /\ wloc[j].translated_segments < wloc[j].total_segments
    /\ wloc' = [wloc EXCEPT ![j].inflight = TRUE]
    /\ UNCHANGED <<clientVars, auxVars>>
    /\ UNCHANGED <<TRANSLATOR_AVAILABLE, tasks, poolQueue, documents, users, now, h,
                   wpc, mpc, mloc>>

\* ... and the call returns.
ChunkReturn(j) ==
    /\ wpc[j] = "chunks"
    /\ wloc[j].inflight
    /\ wloc' = [wloc EXCEPT ![j] = segment_translated([@ EXCEPT !.inflight = FALSE])]
    /\ UNCHANGED <<clientVars, auxVars>>
    /\ UNCHANGED <<TRANSLATOR_AVAILABLE, tasks, poolQueue, documents, users, now, h,
                   wpc, mpc, mloc>>

\* All segments done: the output file is written (or writing it fails).
TranslateEnd(j, ok) ==
    /\ wpc[j] = "chunks"
    /\ ~wloc[j].inflight
    /\ wloc[j].translated_segments = wloc[j].total_segments
    /\ IF ok
       THEN /\ wloc' = [wloc EXCEPT ![j].output = TRUE]
            /\ wpc' = [wpc EXCEPT ![j] = "translated"]
       ELSE /\ wloc' = [wloc EXCEPT ![j].error = "Failed to pack document"]
            /\ wpc' = [wpc EXCEPT ![j] = "except"]
    /\ UNCHANGED <<clientVars, auxVars>>
    /\ UNCHANGED <<TRANSLATOR_AVAILABLE, tasks, poolQueue, documents, users, now, h,
                   mpc, mloc>>

\* The output is verified, the document record updated, and the user's
\* usage read for the increment.
WorkerRecord(j) ==
    /\ wpc[j] = "translated"
    /\ LET d == wloc[j].doc IN
        documents' = [documents EXCEPT ![d].status = "completed",
                                       ![d].translated_path = "out"]
    /\ wloc' = [wloc EXCEPT ![j].used = users[wloc[j].user].translations_used]
    /\ wpc' = [wpc EXCEPT ![j] = "usage"]
    /\ UNCHANGED <<clientVars, auxVars>>
    /\ UNCHANGED <<TRANSLATOR_AVAILABLE, tasks, poolQueue, users, now, h, mpc, mloc>>

\* translations_used += 1: the store of the incremented value.
WorkerUsage(j) ==
    /\ wpc[j] = "usage"
    /\ users' = [users EXCEPT ![wloc[j].user].translations_used = wloc[j].used + 1]
    /\ wpc' = [wpc EXCEPT ![j] = "complete"]
    /\ UNCHANGED <<clientVars, auxVars>>
    /\ UNCHANGED <<TRANSLATOR_AVAILABLE, tasks, poolQueue, documents, now, h, wloc,
                   mpc, mloc>>

\* Mutant of WorkerComplete: the final update_task without result=.
WorkerComplete_no_result(j) ==
    /\ wpc[j] = "complete"
    /\ tasks' = update_task(tasks, j,
                    [status |-> "completed", progress |-> 100,
                     message |-> "Translation completed successfully!",
                     completed_at |-> TRUE])
    /\ wpc' = [wpc EXCEPT ![j] = "done"]
    /\ UNCHANGED <<clientVars, auxVars>>
    /\ UNCHANGED <<TRANSLATOR_AVAILABLE, poolQueue, documents, users, now, h, wloc,
                   mpc, mloc>>

\* The final update_task of the try block.
WorkerComplete(j) ==
    /\ wpc[j] = "complete"
    /\ tasks' = update_task(tasks, j,
                    [status |-> "completed", progress |-> 100,
                     message |-> "Translation completed successfully!",
                     completed_at |-> TRUE, result |-> "out"])
    /\ wpc' = [wpc EXCEPT ![j] = "done"]
    /\ UNCHANGED <<clientVars, auxVars>>
    /\ UNCHANGED <<TRANSLATOR_AVAILABLE, poolQueue, documents, users, now, h, wloc,
                   mpc, mloc>>

\* The except block.
WorkerFail(j) ==
    /\ wpc[j] = "except"
    /\ LET d == wloc[j].doc IN
        documents' = [documents EXCEPT ![d].status = "failed",
                                       ![d].error = wloc[j].error]
    /\ tasks' = update_task(tasks, j,
                    [status |-> "failed", progress |-> 0,
                     message |-> "Translation failed", error |-> wloc[j].error,
                     completed_at |-> TRUE])
    /\ wpc' = [wpc EXCEPT ![j] = "done"]
    /\ UNCHANGED <<clientVars, auxVars>>
    /\ UNCHANGED <<TRANSLATOR_AVAILABLE, poolQueue, users, now, h, wloc, mpc, mloc>>

(* ------------------------------------- update_progress (monitor thread) *)

\* int((translated_segments / total_segments) * 80) + 10, capped at 90.
MonitorProgress(translated, total) ==
    LET progress == (translated * 80) \div total + 10
    IN IF progress < 90 THEN progress ELSE 90

\* One pass of the loop up to its update_task call: the exit test that ends
\* the previous pass (not made before the first pass), the timeout test and
\* the progress computation.
MonitorCheck(j) ==
    /\ mpc[j] \in {"first", "loop"}
    /\ IF mpc[j] = "loop" /\ wloc[j].output
       THEN /\ mpc' = [mpc EXCEPT ![j] = "done"]
            /\ mloc' = mloc
       ELSE IF now - mloc[j].start_time > TRANSLATION_TIMEOUT
       THEN /\ mpc' = [mpc EXCEPT ![j] = "raised"]
            /\ mloc' = mloc
       ELSE IF wloc[j].total_segments > 0
       THEN /\ mpc' = [mpc EXCEPT ![j] = "write"]
            /\ mloc' = [mloc EXCEPT ![j].progress =
                            MonitorProgress(wloc[j].translated_segments,
                                            wloc[j].total_segments)]
       ELSE /\ mpc' = [mpc EXCEPT ![j] = "loop"]
            /\ mloc' = mloc
    /\ UNCHANGED <<clientVars, auxVars>>
    /\ UNCHANGED <<TRANSLATOR_AVAILABLE, tasks, poolQueue, documents, users, now, h,
                   wpc, wloc>>

\* Its update_task call, then time.sleep(2).
MonitorWrite(j) ==
    /\ mpc[j] = "write"
    /\ tasks' = update_task(tasks, j,
                    [progress |-> mloc[j].progress, message |-> "Translating..."])
    /\ mpc' = [mpc EXCEPT ![j] = "loop"]
    /\ UNCHANGED <<clientVars, auxVars>>
    /\ UNCHANGED <<TRANSLATOR_AVAILABLE, poolQueue, documents, users, now, h,
                   wpc, wloc, mloc>>

(* ---------------------------------------------------------- time, cleanup *)

Tick ==
    /\ now < MaxClock * TickSeconds
    /\ now' = now + TickSeconds
    /\ UNCHANGED <<clientVars, auxVars>>
    /\ UNCHANGED <<TRANSLATOR_AVAILABLE, tasks, poolQueue, documents, users, h,
                   wpc, wloc, mpc, mloc>>

\* cleanup_loop: a coroutine of the event loop, so it runs between requests.
Cleanup ==
    /\ h.pc = "idle"
    /\ tasks' = cleanup_old_tasks(tasks, CleanupHours)
    /\ UNCHANGED <<clientVars, auxVars>>
    /\ UNCHANGED <<TRANSLATOR_AVAILABLE, poolQueue, documents, users, now, h,
                   wpc, wloc, mpc, mloc>>

(* ------------------------------------ EnhancedDocumentTranslator: texts *)

\* The sentences the tokenizer hands back, each with its words.
SentenceWords ==
    [s \in {"Hi.", "Go on.", "A b c d e.", "Extraordinary."} |->
        CASE s = "Hi." -> <<"Hi.">>
          [] s = "Go on." -> <<"Go", "on.">>
          [] s = "A b c d e." -> <<"A", "b", "c", "d", "e.">>
          [] s = "Extraordinary." -> <<"Extraordinary.">>]
SentencePool == DOMAIN SentenceWords

\* ' '.join(parts)
RECURSIVE Join(_)
Join(parts) ==
    IF Len(parts) = 0 THEN ""
    ELSE IF Len(parts) = 1 THEN parts[1]
    ELSE parts[1] \o " " \o Join(Tail(parts))

\* Strings for which `not s or not s.strip()` is true.
Blank(s) == s \in {"", " "}

SentenceLists == UNION {[1..n -> SentencePool] : n \in 1..MaxSentences}
\* A text together with what split_into_sentences returns for it.
Texts == {[text |-> Join(ss), sentences |-> ss] : ss \in SentenceLists}
           \cup {[text |-> b, sentences |-> <<>>] : b \in {"", " "}}
Chunks == {"", " "} \cup SentencePool
ChunkSizes == {MinChunkSize, MinChunkSize + 1}

\* What the external service answers for a chunk when it answers properly.
Translated(chunk) == "<" \o chunk \o ">"

\* translate_with_context, the grouping loop: sentence lengths are summed,
\* the joining spaces are not.
\* Mutant of group: the sentence that overflows the open chunk is not carried
\* into the next one.
RECURSIVE group_drops_overflow(_, _, _, _, _)
group_drops_overflow(sentences, chunks, current_chunk, current_size, max_chunk_size) ==
    IF sentences = <<>>
    THEN IF current_chunk # <<>> THEN Append(chunks, Join(current_chunk)) ELSE chunks
    ELSE LET sentence == Head(sentences)
             sentence_size == Len(sentence)
         IN  IF current_size + sentence_size > max_chunk_size /\ current_chunk # <<>>
             THEN group_drops_overflow(Tail(sentences),
                        Append(chunks, Join(current_chunk)), <<>>, 0, max_chunk_size)
             ELSE group_drops_overflow(Tail(sentences), chunks,
                        Append(current_chunk, sentence),
                        current_size + sentence_size, max_chunk_size)

RECURSIVE group_never_packs(_, _, _, _, _)
group_never_packs(sentences, chunks, current_chunk, current_size, max_chunk_size) ==
    IF sentences = <<>>
    THEN IF current_chunk # <<>> THEN Append(chunks, Join(current_chunk)) ELSE chunks
    ELSE LET sentence == Head(sentences)
             sentence_size == Len(sentence)
         IN  IF current_chunk # <<>>
             THEN group_never_packs(Tail(sentences), Append(chunks, Join(current_chunk)),
                        <<sentence>>, sentence_size, max_chunk_size)
             ELSE group_never_packs(Tail(sentences), chunks,
                        Append(current_chunk, sentence),
                        current_size + sentence_size, max_chunk_size)

RECURSIVE group(_, _, _, _, _)
group(sentences, chunks, current_chunk, current_size, max_chunk_size) ==
    IF sentences = <<>>
    THEN IF current_chunk # <<>> THEN Append(chunks, Join(current_chunk)) ELSE chunks
    ELSE LET sentence == Head(sentences)
             sentence_size == Len(sentence)
         IN  IF current_size + sentence_size > max_chunk_size /\ current_chunk # <<>>
             THEN group(Tail(sentences), Append(chunks, Join(current_chunk)),
                        <<sentence>>, sentence_size, max_chunk_size)
             ELSE group(Tail(sentences), chunks, Append(current_chunk, sentence),
                        current_size + sentence_size, max_chunk_size)

Put_clearing(cache, key, value) == [k \in {key} |-> value]

Put(cache, key, value) ==
    [k \in DOMAIN cache \cup {key} |-> IF k = key THEN value ELSE cache[k]]

(* ---------------------------------- EnhancedDocumentTranslator: calls *)

NewFrame(op, arg, max_chunk_size, chunks, chunk) ==
    [op |-> op, arg |-> arg, max_chunk_size |-> max_chunk_size, chunks |-> chunks,
     i |-> 1, translated_chunks |-> <<>>, chunk |-> chunk, hit |-> FALSE,
     attempt |-> 0, calls |-> 0, ret |-> None,
     sentences |-> <<>>, answer |-> None, pending |-> 0, waits |-> <<>>,
     recreated |-> 0]

\* A top-level call has returned `result` to its caller.
Returned(f, result) ==
    [op |-> f.op, arg |-> f.arg, max_chunk_size |-> f.max_chunk_size,
     chunks |-> f.chunks, translated_chunks |-> f.translated_chunks,
     hit |-> f.hit, calls |-> f.calls, result |-> result,
     sentences |-> f.sentences]

\* The answers the external service can give to one call.
Outcomes ==
    CASE service = "succeeds" -> {"text"}
      [] service = "fails" -> {"raise"}
      [] OTHER -> {"text", "raise", "none", "empty", "nonstr"}

\* A caller invokes translate_chunk(chunk) directly.
CallTranslateChunk(chunk) ==
    /\ cpc = "idle"
    /\ Len(log) < MaxCalls
    /\ frame' = NewFrame("translate_chunk", chunk, 0, <<>>, chunk)
    /\ cpc' = "enter"
    /\ UNCHANGED <<supported, service, translator, translation_cache, context_cache, log>>
    /\ UNCHANGED <<jobVars, auxVars>>

\* A caller invokes translate_with_context(text, max_chunk_size), up to the
\* first translate_chunk call it makes.
CallTranslateWithContext(t, max_chunk_size) ==
    /\ cpc = "idle"
    /\ Len(log) < MaxCalls
    /\ LET f == [NewFrame("translate_with_context", t.text, max_chunk_size, <<>>, t.text)
                    EXCEPT !.sentences = t.sentences]
       IN  IF Blank(t.text)
           THEN /\ log' = Append(log, Returned(f, t.text))
                /\ UNCHANGED <<cpc, frame>>
           ELSE IF t.text \in DOMAIN translation_cache
           THEN /\ log' = Append(log, Returned([f EXCEPT !.hit = TRUE],
                                               translation_cache[t.text]))
                /\ UNCHANGED <<cpc, frame>>
           ELSE IF t.sentences = <<>>
           THEN /\ log' = Append(log, Returned(f, t.text))
                /\ UNCHANGED <<cpc, frame>>
           ELSE IF Len(t.text) <= max_chunk_size
           THEN /\ frame' = f
                /\ cpc' = "enter"
                /\ UNCHANGED log
           ELSE LET chunks == group(t.sentences, <<>>, <<>>, 0, max_chunk_size)
                IN  /\ frame' = [f EXCEPT !.chunks = chunks, !.chunk = chunks[1]]
                    /\ cpc' = "enter"
                    /\ UNCHANGED log
    /\ UNCHANGED <<supported, service, translator, translation_cache, context_cache>>
    /\ UNCHANGED <<jobVars, auxVars>>

CacheHit_never(cache, chunk) == FALSE

CacheHit(cache, chunk) == chunk \in DOMAIN cache

\* translate_chunk, before the retry loop.
ChunkEntry ==
    /\ cpc = "enter"
    /\ IF Blank(frame.chunk)
       THEN /\ frame' = [frame EXCEPT !.ret = frame.chunk]
            /\ cpc' = "exit"
       ELSE IF CacheHit(context_cache, frame.chunk)
       THEN /\ frame' = [frame EXCEPT !.ret = context_cache[frame.chunk], !.hit = TRUE]
            /\ cpc' = "exit"
       ELSE /\ frame' = [frame EXCEPT !.attempt = 0, !.answer = None, !.pending = 0,
                                      !.waits = <<>>, !.recreated = 0]
            /\ cpc' = "attempt"
    /\ UNCHANGED <<supported, service, translator, translation_cache, context_cache, log>>
    /\ UNCHANGED <<jobVars, auxVars>>

IsLastAttempt_first(attempt) == attempt = 0

IsLastAttempt(attempt) == attempt = max_retries - 1

\* The sleeps of the retry loop, in tenths of a second: 0.2 * (attempt + 1)
\* at the head of a pass, 0.5 before the translator is re-created.
SleepStep == 2
RecreateSleep == 5
retry_delay(attempt) == SleepStep * (attempt + 1)

\* One pass of the retry loop of translate_chunk.  frame.waits records the
\* time slept before each pass, frame.recreated the constructor calls of
\* the except block.
ChunkAttempt(outcome) ==
    /\ cpc = "attempt"
    /\ outcome \in Outcomes
    /\ LET chunk == frame.chunk
           built == translator # None \/ supported
           called == IF built THEN frame.calls + 1 ELSE frame.calls
           waits == Append(frame.waits, frame.pending + retry_delay(frame.attempt))
           answer == IF built THEN outcome ELSE "raise"
       IN  IF built /\ outcome # "raise"
           THEN LET translated == IF outcome = "text" THEN Translated(chunk) ELSE chunk
                IN  /\ translator' = "session"
                    /\ context_cache' = Put(context_cache, chunk, translated)
                    /\ frame' = [frame EXCEPT !.calls = called, !.ret = translated,
                                              !.answer = answer, !.waits = waits,
                                              !.pending = 0]
                    /\ cpc' = "exit"
           ELSE IF IsLastAttempt(frame.attempt)
           THEN /\ translator' = IF built THEN "session" ELSE translator
                /\ context_cache' = Put(context_cache, chunk, chunk)
                /\ frame' = [frame EXCEPT !.calls = called, !.ret = chunk,
                                          !.answer = answer, !.waits = waits,
                                          !.pending = 0]
                /\ cpc' = "exit"
           ELSE /\ translator' = IF supported THEN "session" ELSE translator
                /\ frame' = [frame EXCEPT !.calls = called, !.attempt = @ + 1,
                                          !.answer = answer, !.waits = waits,
                                          !.pending = RecreateSleep,
                                          !.recreated = @ + 1]
                /\ UNCHANGED <<context_cache, cpc>>
    /\ UNCHANGED <<supported, service, translation_cache, log>>
    /\ UNCHANGED <<jobVars, auxVars>>

\* translate_chunk returns frame.ret to whoever called it.
ChunkExit ==
    /\ cpc = "exit"
    /\ IF frame.op = "translate_chunk" \/ frame.chunks = <<>>
       THEN /\ log' = Append(log, Returned(frame, frame.ret))
            /\ cpc' = "idle"
            /\ frame' = <<>>
            /\ UNCHANGED translation_cache
       ELSE LET translated_chunks == Append(frame.translated_chunks, frame.ret)
            IN  IF frame.i < Len(frame.chunks)
                THEN /\ frame' = [frame EXCEPT !.translated_chunks = translated_chunks,
                                               !.i = @ + 1,
                                               !.chunk = frame.chunks[frame.i + 1]]
                     /\ cpc' = "enter"
                     /\ UNCHANGED <<translation_cache, log>>
                ELSE LET result == Join(translated_chunks)
                     IN  /\ translation_cache' = Put(translation_cache, frame.arg, result)
                         /\ log' = Append(log,
                                Returned([frame EXCEPT !.translated_chunks = translated_chunks],
                                         result))
                         /\ cpc' = "idle"
                         /\ frame' = <<>>
    /\ UNCHANGED <<supported, service, translator, context_cache>>
    /\ UNCHANGED <<jobVars, auxVars>>

(* --------------------------------------- the pool with several jobs *)

\* The jobs of the pool specification, and the threads that translate: one
\* pool thread per job, and the event loop for the documents translated
\* inside the request.
PoolIds == 1..PoolJobs
EventLoop == 0
Translators == PoolIds \cup {EventLoop}

\* Positions inside translator.translate_document (translate_docx).
Translating == {"prepare", "unpack", "pack", "cleanup", "finish"}
Executing == {w \in Translators : wpc[w] \in Translating}

\* POST /translate on a document above 2 MB: the whole background branch.
PoolSubmit(u) ==
    /\ wpc[EventLoop] = "none"
    /\ \E j \in PoolIds :
        /\ wpc[j] = "none"
        /\ \A k \in PoolIds : wpc[k] = "none" => j <= k
        /\ tasks' = add_task(tasks, j, u, j)
        /\ poolQueue' = Append(poolQueue, j)
        /\ wpc' = [wpc EXCEPT ![j] = "queued"]
    /\ cleanup_call' = 0
    /\ UNCHANGED <<TRANSLATOR_AVAILABLE, documents, users, now, h, wloc, mpc, mloc>>
    /\ UNCHANGED <<clientVars, temp_dir, lockVars, pass, applied, sessionVars>>

\* POST /translate on a document of at most 2 MB: the handler itself calls
\* translator.translate_document, on the event loop's thread.
PoolSyncBegin ==
    /\ wpc[EventLoop] = "none"
    /\ wpc' = [wpc EXCEPT ![EventLoop] = "prepare"]
    /\ cleanup_call' = 0
    /\ UNCHANGED <<TRANSLATOR_AVAILABLE, tasks, poolQueue, documents, users, now, h,
                   wloc, mpc, mloc>>
    /\ UNCHANGED <<clientVars, temp_dir, lockVars, pass, applied, sessionVars>>

\* ... and returns its response.
PoolSyncEnd ==
    /\ wpc[EventLoop] = "finish"
    /\ wpc' = [wpc EXCEPT ![EventLoop] = "none"]
    /\ wloc' = [wloc EXCEPT ![EventLoop] = FALSE]
    /\ cleanup_call' = 0
    /\ UNCHANGED <<TRANSLATOR_AVAILABLE, tasks, poolQueue, documents, users, now, h,
                   mpc, mloc>>
    /\ UNCHANGED <<clientVars, temp_dir, lockVars, pass, applied, sessionVars>>

\* Mutant of PoolStart: the pool never has a free thread.
PoolStart_no_thread(j) ==
    /\ poolQueue # <<>>
    /\ j = Head(poolQueue)
    /\ Cardinality(Executing \cap PoolIds) < 0
    /\ UNCHANGED vars

\* ThreadPoolExecutor(max_workers=MAX_CONCURRENT_TRANSLATIONS): a free pool
\* thread takes the oldest submitted job; process_translation_task up to
\* translator.translate_document.
PoolStart(j) ==
    /\ poolQueue # <<>>
    /\ j = Head(poolQueue)
    /\ Cardinality(Executing \cap PoolIds) < MAX_CONCURRENT_TRANSLATIONS
    /\ poolQueue' = Tail(poolQueue)
    /\ tasks' = update_task(tasks, j,
                    [status |-> "processing", started_at |-> TRUE, progress |-> 20,
                     message |-> "Starting translation..."])
    /\ wpc' = [wpc EXCEPT ![j] = "prepare"]
    /\ cleanup_call' = 0
    /\ UNCHANGED <<TRANSLATOR_AVAILABLE, documents, users, now, h, wloc, mpc, mloc>>
    /\ UNCHANGED <<clientVars, temp_dir, lockVars, pass, applied, sessionVars>>

\* translate_docx: rmtree(temp_dir) if it exists, then makedirs(temp_dir).
DocxPrepare(w) ==
    /\ wpc[w] = "prepare"
    /\ temp_dir' = [exists |-> TRUE, tree |-> {}]
    /\ wpc' = [wpc EXCEPT ![w] = "unpack"]
    /\ cleanup_call' = 0
    /\ UNCHANGED <<TRANSLATOR_AVAILABLE, tasks, poolQueue, documents, users, now, h,
                   wloc, mpc, mloc>>
    /\ UNCHANGED <<clientVars, lockVars, pass, applied, sessionVars>>

\* The document is unpacked into temp_dir: its parts replace those there.
DocxUnpack(w) ==
    /\ wpc[w] = "unpack"
    /\ temp_dir' = [exists |-> TRUE, tree |-> {w}]
    /\ wpc' = [wpc EXCEPT ![w] = "pack"]
    /\ cleanup_call' = 0
    /\ UNCHANGED <<TRANSLATOR_AVAILABLE, tasks, poolQueue, documents, users, now, h,
                   wloc, mpc, mloc>>
    /\ UNCHANGED <<clientVars, lockVars, pass, applied, sessionVars>>

\* The parts found in temp_dir are translated and packed into the output;
\* wloc[w] tells whether they were this document's own parts.
DocxPack(w) ==
    /\ wpc[w] = "pack"
    /\ wloc' = [wloc EXCEPT ![w] = (temp_dir.exists /\ temp_dir.tree = {w})]
    /\ wpc' = [wpc EXCEPT ![w] = "cleanup"]
    /\ cleanup_call' = 0
    /\ UNCHANGED <<TRANSLATOR_AVAILABLE, tasks, poolQueue, documents, users, now, h,
                   mpc, mloc>>
    /\ UNCHANGED <<clientVars, temp_dir, lockVars, pass, applied, sessionVars>>

\* finally: rmtree(temp_dir) if it exists.
DocxCleanup(w) ==
    /\ wpc[w] = "cleanup"
    /\ temp_dir' = [exists |-> FALSE, tree |-> {}]
    /\ wpc' = [wpc EXCEPT ![w] = "finish"]
    /\ cleanup_call' = 0
    /\ UNCHANGED <<TRANSLATOR_AVAILABLE, tasks, poolQueue, documents, users, now, h,
                   wloc, mpc, mloc>>
    /\ UNCHANGED <<clientVars, lockVars, pass, applied, sessionVars>>

\* process_translation_task after translator.translate_document: the final
\* update_task of the try block, or the one of the except block.
PoolFinish(j, ok) ==
    /\ j \in PoolIds
    /\ wpc[j] = "finish"
    /\ tasks' = IF ok
                THEN update_task(tasks, j,
                        [status |-> "completed", progress |-> 100,
                         message |-> "Translation completed successfully!",
                         completed_at |-> TRUE, result |-> "out"])
                ELSE update_task(tasks, j,
                        [status |-> "failed", progress |-> 0,
                         message |-> "Translation failed",
                         error |-> "Failed to pack document", completed_at |-> TRUE])
    /\ wpc' = [wpc EXCEPT ![j] = "done"]
    /\ cleanup_call' = 0
    /\ UNCHANGED <<TRANSLATOR_AVAILABLE, poolQueue, documents, users, now, h, wloc,
                   mpc, mloc>>
    /\ UNCHANGED <<clientVars, temp_dir, lockVars, pass, applied, sessionVars>>

(* ----------------------------------------- the registry over time *)

\* translator.translate_document as one step, where the working directory
\* is of no interest.
PoolTranslate(j) ==
    /\ j \in PoolIds
    /\ wpc[j] = "prepare"
    /\ wpc' = [wpc EXCEPT ![j] = "finish"]
    /\ cleanup_call' = 0
    /\ UNCHANGED <<TRANSLATOR_AVAILABLE, tasks, poolQueue, documents, users, now, h,
                   wloc, mpc, mloc>>
    /\ UNCHANGED <<clientVars, temp_dir, lockVars, pass, applied, sessionVars>>

\* POST /task/{j}/cancel by the job's owner, accepted.
PoolCancel(j) ==
    /\ j \in DOMAIN tasks
    /\ tasks[j].status \notin {"completed", "failed"}
    /\ tasks' = update_task(tasks, j,
                    [status |-> "cancelled", message |-> "Task cancelled by user",
                     completed_at |-> TRUE])
    /\ cleanup_call' = 0
    /\ UNCHANGED <<TRANSLATOR_AVAILABLE, poolQueue, documents, users, now, h,
                   wpc, wloc, mpc, mloc>>
    /\ UNCHANGED <<clientVars, temp_dir, lockVars, pass, applied, sessionVars>>

PoolTick ==
    /\ now < MaxClock * TickSeconds
    /\ now' = now + TickSeconds
    /\ cleanup_call' = 0
    /\ UNCHANGED <<TRANSLATOR_AVAILABLE, tasks, poolQueue, documents, users, h,
                   wpc, wloc, mpc, mloc>>
    /\ UNCHANGED <<clientVars, temp_dir, lockVars, pass, applied, sessionVars>>

\* The ages cleanup_old_tasks is called with: the 24 of cleanup_loop, and
\* the length of one clock step.
CleanupHourChoices == {CleanupHours, TickSeconds \div 3600}

\* task_manager.cleanup_old_tasks(hours)
PoolCleanup(hours) ==
    /\ tasks' = cleanup_old_tasks(tasks, hours)
    /\ cleanup_call' = hours
    /\ UNCHANGED <<TRANSLATOR_AVAILABLE, poolQueue, documents, users, now, h,
                   wpc, wloc, mpc, mloc>>
    /\ UNCHANGED <<clientVars, temp_dir, lockVars, pass, applied, sessionVars>>

(* ------------------------------------- TranslationTaskManager.lock *)

\* The threads that reach the registry: the event loop (request handlers,
\* cleanup_loop, /health), a pool worker and its progress monitor.
LockThreads == {"loop", "worker", "monitor"}

\* What each call does with the lock and the registry, in program order:
\* "acquire" / "release" are the ends of a `with self.lock:` block, "read" and
\* "write" an access to self.tasks or to a job record in it.
CallSteps ==
    [call \in {"translate_document", "get_task_status", "get_my_tasks",
               "cancel_task", "cleanup_loop", "health", "update_task"} |->
        CASE call = "translate_document" -> <<"acquire", "write", "release", "read">>
          [] call = "get_task_status" -> <<"acquire", "read", "release", "read">>
          [] call = "get_my_tasks" -> <<"acquire", "read", "release", "read">>
          [] call = "cancel_task" -> <<"acquire", "read", "release", "read",
                                       "acquire", "read", "write", "release">>
          [] call = "cleanup_loop" -> <<"acquire", "read", "write", "release">>
          [] call = "health" -> <<"read">>
          [] call = "update_task" -> <<"acquire", "read", "write", "release">>]

\* The calls each thread makes.
CallsOf(t) ==
    IF t = "loop" THEN DOMAIN CallSteps \ {"update_task"} ELSE {"update_task"}

NextStep(t) == IF threads[t].steps = <<>> THEN None ELSE Head(threads[t].steps)

LockCall(t, call) ==
    /\ threads[t].steps = <<>>
    /\ call \in CallsOf(t)
    /\ threads' = [threads EXCEPT ![t] = [call |-> call, steps |-> CallSteps[call]]]
    /\ UNCHANGED <<jobVars, clientVars, poolVars, lock, pass, applied, sessionVars>>

\* with self.lock: entered
LockAcquire(t) ==
    /\ NextStep(t) = "acquire"
    /\ lock = None
    /\ lock' = t
    /\ threads' = [threads EXCEPT ![t].steps = Tail(@)]
    /\ UNCHANGED <<jobVars, clientVars, poolVars, pass, applied, sessionVars>>

\* A read or a write of self.tasks or of a record in it.
LockAccess(t) ==
    /\ NextStep(t) \in {"read", "write"}
    /\ threads' = [threads EXCEPT ![t].steps = Tail(@)]
    /\ UNCHANGED <<jobVars, clientVars, poolVars, lock, pass, applied, sessionVars>>

\* with self.lock: left
LockRelease(t) ==
    /\ NextStep(t) = "release"
    /\ lock' = None
    /\ threads' = [threads EXCEPT ![t].steps = Tail(@)]
    /\ UNCHANGED <<jobVars, clientVars, poolVars, pass, applied, sessionVars>>

(* ------------------------- the pass over paragraphs / PDF text blocks *)

\* What is done to one node, in order: a DOCX paragraph (translate_paragraph_node)
\* or a PDF text block (the body of the block loop of translate_pdf).
Stages(kind) ==
    IF kind = "docx" THEN <<"extract", "translate", "replace">>
    ELSE <<"extract", "translate", "cover", "insert">>

\* The stages that call into a library or the translator and so can raise;
\* replace_text_nodes only slices and joins strings.
RaisingStages(kind) ==
    IF kind = "docx" THEN {"extract", "translate"}
    ELSE {"extract", "translate", "cover", "insert"}

\* What the node shows once the stage has run.
After(stage, text) ==
    CASE stage = "replace" -> "translated"
      [] stage = "cover" -> "covered"
      [] stage = "insert" -> "translated"
      [] OTHER -> text

\* The loop moves to the next node (or ends after the last).
NextNode(p, text) ==
    [p EXCEPT !.nodes[p.i] = text, !.visited = Append(@, p.i), !.i = @ + 1, !.stage = 1,
              !.done = (p.i = Len(p.nodes))]

\* One stage of the current node completes.
PassStage ==
    /\ ~pass.done
    /\ LET stage == Stages(pass.kind)[pass.stage]
           text == After(stage, pass.nodes[pass.i])
       IN  pass' = IF pass.stage = Len(Stages(pass.kind))
                   THEN NextNode(pass, text)
                   ELSE [pass EXCEPT !.nodes[pass.i] = text, !.stage = @ + 1]
    /\ UNCHANGED <<jobVars, clientVars, poolVars, lockVars, applied, sessionVars>>

\* should_translate_text says no (or the text is empty): return / continue.
PassSkip ==
    /\ ~pass.done
    /\ Stages(pass.kind)[pass.stage] = "extract"
    /\ pass' = NextNode(pass, pass.nodes[pass.i])
    /\ UNCHANGED <<jobVars, clientVars, poolVars, lockVars, applied, sessionVars>>

\* The stage raises: except Exception ... continue.
PassRaise ==
    /\ ~pass.done
    /\ Stages(pass.kind)[pass.stage] \in RaisingStages(pass.kind)
    /\ pass' = [NextNode(pass, pass.nodes[pass.i]) EXCEPT !.raised = @ \cup {pass.i}]
    /\ UNCHANGED <<jobVars, clientVars, poolVars, lockVars, applied, sessionVars>>

(* ----------------------------------------------- should_translate_text *)

\* Texts as sequences of characters: an optional URL prefix followed by up
\* to MaxChars characters of a small alphabet (a letter, a digit, '@', '.',
\* a space and a punctuation mark that is neither).
Letters == {"a", "h", "t", "p", "s", "w"}
Digits == {"7"}
Alphabet == {"a", "7", "@", ".", " ", "*"}
Prefixes ==
    {<<>>, <<"h", "t", "t", "p", ":", "/", "/">>,
     <<"h", "t", "t", "p", "s", ":", "/", "/">>, <<"w", "w", "w", ".">>}
CharTexts ==
    {prefix \o body : prefix \in Prefixes,
                      body \in UNION {[1..n -> Alphabet] : n \in 0..MaxChars}}

\* text.strip()
RECURSIVE strip(_)
strip(text) ==
    IF text = <<>> THEN text
    ELSE IF Head(text) = " " THEN strip(Tail(text))
    ELSE IF text[Len(text)] = " " THEN strip(SubSeq(text, 1, Len(text) - 1))
    ELSE text

\* len(text.split())
split_count(text) ==
    Cardinality({i \in DOMAIN text : text[i] # " " /\ (i = 1 \/ text[i - 1] = " ")})

startswith(text, prefix) ==
    Len(text) >= Len(prefix) /\ SubSeq(text, 1, Len(prefix)) = prefix

\* re.match(r'^[\d\s\-/.,]+$', text)
numeric_pattern(text) ==
    text # <<>> /\ \A i \in DOMAIN text : text[i] \in Digits \cup {" ", "-", "/", ".", ","}

should_translate_text(raw) ==
    LET text == strip(raw) IN
    IF text = <<>> THEN FALSE
    ELSE IF (\E i \in DOMAIN text : text[i] = "@") /\ (\E i \in DOMAIN text : text[i] = ".")
            /\ split_count(text) = 1 THEN FALSE
    ELSE IF startswith(text, <<"h", "t", "t", "p", ":", "/", "/">>)
            \/ startswith(text, <<"h", "t", "t", "p", "s", ":", "/", "/">>)
            \/ startswith(text, <<"w", "w", "w", ".">>) THEN FALSE
    ELSE IF numeric_pattern(text) THEN FALSE
    ELSE IF Len(text) < 3 THEN FALSE
    ELSE TRUE

\* The filter is asked about one text.
ShouldTranslate(text) ==
    /\ applied' = [fn |-> "should_translate_text", text |-> text,
                result |-> should_translate_text(text)]
    /\ UNCHANGED <<jobVars, clientVars, poolVars, lockVars, pass, sessionVars>>

(* --------------------------------------------- translate_paragraph_node *)

\* A paragraph is the sequence of its text nodes, a text node the sequence
\* of its words (none for a blank node), a word a sequence of characters.
OriginalWord == <<"a", "a", "a">>
TranslatedWord(k) == [i \in 1..k |-> "b"]
NodeTexts == UNION {[1..n -> {OriginalWord}] : n \in 0..MaxRunWords}
Paragraphs == UNION {[1..n -> NodeTexts] : n \in 1..MaxRuns}
Translations == {[k \in 1..n |-> TranslatedWord(k)] : n \in 1..MaxTranslated}

\* The words of all the nodes, in document order.
RECURSIVE Words(_)
Words(nodes) == IF nodes = <<>> THEN <<>> ELSE Head(nodes) \o Words(Tail(nodes))

\* ' '.join(words), as characters.
RECURSIVE JoinWords(_)
JoinWords(words) ==
    IF words = <<>> THEN <<>>
    ELSE IF Len(words) = 1 THEN words[1]
    ELSE words[1] \o <<" ">> \o JoinWords(Tail(words))

extract_paragraph_text(nodes) == JoinWords(Words(nodes))

Min(a, b) == IF a < b THEN a ELSE b

\* replace_text_nodes over the text nodes from the first one left.
RECURSIVE replace_text_nodes(_, _, _)
replace_text_nodes(nodes, translated_words, word_index) ==
    IF nodes = <<>> THEN <<>>
    ELSE LET text == Head(nodes)
             num_words == Len(text)
         IN  IF text # <<>> /\ word_index < Len(translated_words)
             THEN LET end_index == Min(word_index + num_words, Len(translated_words))
                  IN  <<SubSeq(translated_words, word_index + 1, end_index)>>
                        \o replace_text_nodes(Tail(nodes), translated_words, end_index)
             ELSE <<text>> \o replace_text_nodes(Tail(nodes), translated_words, word_index)

\* translate_paragraph_node on a paragraph whose translation came back as
\* translated_words.
TranslateParagraph(nodes, translated_words) ==
    /\ LET paragraph_text == extract_paragraph_text(nodes)
           eligible == paragraph_text # <<>> /\ should_translate_text(paragraph_text)
       IN  applied' = [fn |-> "translate_paragraph_node", nodes |-> nodes,
                       translated_words |-> translated_words, eligible |-> eligible,
                       result |-> IF eligible
                                  THEN replace_text_nodes(nodes, translated_words, 0)
                                  ELSE nodes]
    /\ UNCHANGED <<jobVars, clientVars, poolVars, lockVars, pass, sessionVars>>

(* ------------------------------- EnhancedPDFTranslator: docx paragraphs *)

\* EnhancedPDFTranslator.should_translate_text
isdigit(text) == text # <<>> /\ \A i \in DOMAIN text : text[i] \in Digits

RECURSIVE without(_, _)
without(text, removed) ==
    IF text = <<>> THEN <<>>
    ELSE IF Head(text) \in removed THEN without(Tail(text), removed)
    ELSE <<Head(text)>> \o without(Tail(text), removed)

pdf_should_translate_text(raw) ==
    LET text == strip(raw) IN
    IF text = <<>> THEN FALSE
    ELSE IF (\E i \in DOMAIN text : text[i] = "@") /\ (\E i \in DOMAIN text : text[i] = ".")
            /\ split_count(text) = 1 THEN FALSE
    ELSE IF startswith(text, <<"h", "t", "t", "p", ":", "/", "/">>)
            \/ startswith(text, <<"h", "t", "t", "p", "s", ":", "/", "/">>)
            \/ startswith(text, <<"w", "w", "w", ".">>) THEN FALSE
    ELSE IF isdigit(without(text, {".", ",", "-", "/"})) THEN FALSE
    ELSE IF Len(text) <= 2 THEN FALSE
    ELSE TRUE

\* A run of a python-docx paragraph: its formatting, "None" where unset.
RunStyles ==
    [bold : {"None", "True", "False"}, italic : {"None", "True"},
     underline : {"None", "True"}, font_name : {"None", "Arial"},
     font_size : {"None", "12"}, color : {"None", "FF0000"}]
PlainRun ==
    [bold |-> "None", italic |-> "None", underline |-> "None",
     font_name |-> "None", font_size |-> "None", color |-> "None"]
\* The runs of a paragraph: a first run of any style, plain runs after it.
RunLists ==
    {[k \in 1..n |-> IF k = 1 THEN first ELSE PlainRun] :
        first \in RunStyles, n \in 1..MaxRuns}
ParagraphTexts == {<<"a", "a", "a">>, <<"7", ".", "7">>, <<"a">>}

\* paragraph.add_run(translated_text), then the formatting of
\* original_runs[0] where the code applies it.
restyled_run(original_runs) ==
    IF Len(original_runs) > 1
    THEN LET first == original_runs[1]
         IN  [bold |-> IF first.bold = "True" THEN "True" ELSE "None",
              italic |-> IF first.italic = "True" THEN "True" ELSE "None",
              underline |-> IF first.underline = "True" THEN "True" ELSE "None",
              font_name |-> first.font_name,
              font_size |-> first.font_size,
              color |-> first.color]
    ELSE PlainRun

\* The body of the paragraph loop of translate_docx_content for one
\* paragraph.
TranslateDocxParagraph(text, runs) ==
    /\ LET eligible == text # <<>> /\ pdf_should_translate_text(text)
       IN  applied' = [fn |-> "translate_docx_content", text |-> text,
                       original_runs |-> runs, eligible |-> eligible,
                       runs |-> IF eligible THEN <<restyled_run(runs)>> ELSE runs]
    /\ UNCHANGED <<jobVars, clientVars, poolVars, lockVars, pass, sessionVars>>

(* --------------------------------------------- the usage counter (quota) *)

\* The threads that count a translation: one pool thread per background
\* job, and the event loop for the documents translated inside the request.
QuotaIds == 1..QuotaJobs
QuotaThreads == QuotaIds \cup {EventLoop}

\* POST /translate on a document above 2 MB, up to its return: the limit
\* test, add_task and executor.submit.
QuotaSubmit(u) ==
    /\ wpc[EventLoop] = "none"
    /\ ~LimitReached(u)
    /\ \E j \in QuotaIds :
        /\ wpc[j] = "none"
        /\ \A k \in QuotaIds : wpc[k] = "none" => j <= k
        /\ tasks' = add_task(tasks, j, u, j)
        /\ wpc' = [wpc EXCEPT ![j] = "queued"]
    /\ UNCHANGED <<TRANSLATOR_AVAILABLE, poolQueue, documents, users, now, h, wloc,
                   mpc, mloc>>
    /\ UNCHANGED <<clientVars, auxVars>>

\* POST /translate on a document of at most 2 MB: the limit test, then the
\* handler translates on the event loop's thread.
QuotaSyncBegin(u) ==
    /\ wpc[EventLoop] = "none"
    /\ ~LimitReached(u)
    /\ wpc' = [wpc EXCEPT ![EventLoop] = "translate"]
    /\ UNCHANGED <<TRANSLATOR_AVAILABLE, tasks, poolQueue, documents, users, now, h,
                   wloc, mpc, mloc>>
    /\ UNCHANGED <<clientVars, auxVars>>

\* A free pool thread starts process_translation_task for a queued job.
QuotaStart(j) ==
    /\ j \in QuotaIds
    /\ wpc[j] = "queued"
    /\ Cardinality({k \in QuotaIds : wpc[k] \in {"translate", "load", "store", "complete"}})
           < MAX_CONCURRENT_TRANSLATIONS
    /\ tasks' = update_task(tasks, j,
                    [status |-> "processing", started_at |-> TRUE, progress |-> 20,
                     message |-> "Starting translation..."])
    /\ wpc' = [wpc EXCEPT ![j] = "translate"]
    /\ UNCHANGED <<TRANSLATOR_AVAILABLE, poolQueue, documents, users, now, h, wloc,
                   mpc, mloc>>
    /\ UNCHANGED <<clientVars, auxVars>>

\* translator.translate_document returns, or raises: the except block of
\* the worker, or the handler's HTTP 500.
QuotaTranslated(w, ok) ==
    /\ wpc[w] = "translate"
    /\ IF ok
       THEN /\ wpc' = [wpc EXCEPT ![w] = "load"]
            /\ UNCHANGED tasks
       ELSE IF w = EventLoop
       THEN /\ wpc' = [wpc EXCEPT ![w] = "none"]
            /\ UNCHANGED tasks
       ELSE /\ wpc' = [wpc EXCEPT ![w] = "done"]
            /\ tasks' = update_task(tasks, w,
                            [status |-> "failed", progress |-> 0,
                             message |-> "Translation failed",
                             error |-> "Failed to pack document",
                             completed_at |-> TRUE])
    /\ UNCHANGED <<TRANSLATOR_AVAILABLE, poolQueue, documents, users, now, h, wloc,
                   mpc, mloc>>
    /\ UNCHANGED <<clientVars, auxVars>>

\* users[user_id]["translations_used"] += 1: the load of the old value ...
QuotaLoad(w, u) ==
    /\ wpc[w] = "load"
    /\ wloc' = [wloc EXCEPT ![w] = users[u].translations_used]
    /\ wpc' = [wpc EXCEPT ![w] = "store"]
    /\ UNCHANGED <<TRANSLATOR_AVAILABLE, tasks, poolQueue, documents, users, now, h,
                   mpc, mloc>>
    /\ UNCHANGED <<clientVars, auxVars>>

\* ... and the store of the incremented value; the handler then returns.
QuotaStore(w, u) ==
    /\ wpc[w] = "store"
    /\ users' = [users EXCEPT ![u].translations_used = wloc[w] + 1]
    /\ wpc' = [wpc EXCEPT ![w] = IF w = EventLoop THEN "none" ELSE "complete"]
    /\ wloc' = [wloc EXCEPT ![w] = 0]
    /\ UNCHANGED <<TRANSLATOR_AVAILABLE, tasks, poolQueue, documents, now, h, mpc, mloc>>
    /\ UNCHANGED <<clientVars, auxVars>>

\* The final update_task of the worker's try block.
QuotaComplete(j) ==
    /\ j \in QuotaIds
    /\ wpc[j] = "complete"
    /\ tasks' = update_task(tasks, j,
                    [status |-> "completed", progress |-> 100,
                     message |-> "Translation completed successfully!",
                     completed_at |-> TRUE, result |-> "out"])
    /\ wpc' = [wpc EXCEPT ![j] = "done"]
    /\ UNCHANGED <<TRANSLATOR_AVAILABLE, poolQueue, documents, users, now, h, wloc,
                   mpc, mloc>>
    /\ UNCHANGED <<clientVars, auxVars>>

(* ---------------------------------------------------------------- sessions *)

\* generate_token: a uuid4 no session has had before.
Tokens == 1..MaxTokens
FreshTokens == {t \in Tokens : t = issued + 1}

\* `token in sessions`, and dict deletion: the other sessions keep their order.
HasSession(ss, token) == \E i \in DOMAIN ss : ss[i].token = token
SessionOf(ss, token) == ss[CHOOSE i \in DOMAIN ss : ss[i].token = token]
RECURSIVE del_session(_, _)
del_session(ss, token) ==
    IF ss = <<>> THEN <<>>
    ELSE IF Head(ss).token = token THEN Tail(ss)
    ELSE <<Head(ss)>> \o del_session(Tail(ss), token)

\* verify_token: "absent", "expired" (the session is deleted) or "ok".
verify_token(ss, token) ==
    IF ~HasSession(ss, token) THEN "absent"
    ELSE IF now - SessionOf(ss, token).created_at > SessionSeconds THEN "expired"
    ELSE "ok"

\* The loop of sign_out: the first token, in dict order, of a session of
\* the user.
first_token_of(ss, user_id) ==
    LET i == CHOOSE i \in DOMAIN ss :
                /\ ss[i].user_id = user_id
                /\ \A k \in 1..(i - 1) : ss[k].user_id # user_id
    IN  ss[i].token

\* POST /auth/signin with the right password.
SignIn(u) ==
    /\ h.pc = "idle"
    /\ \E token \in FreshTokens :
        /\ sessions' = Append(sessions, [token |-> token, user_id |-> u, created_at |-> now])
        /\ issued' = token
        /\ h' = Respond("signin", token, 200)
    /\ UNCHANGED <<TRANSLATOR_AVAILABLE, tasks, poolQueue, documents, users, now,
                   wpc, wloc, mpc, mloc>>
    /\ UNCHANGED <<clientVars, poolVars, lockVars, pass, applied>>

\* GET /auth/me with token: verify_token alone.
CurrentUser(token) ==
    /\ h.pc = "idle"
    /\ LET verdict == verify_token(sessions, token)
       IN  /\ sessions' = IF verdict = "expired" THEN del_session(sessions, token)
                          ELSE sessions
           /\ h' = Respond("me", token, IF verdict = "ok" THEN 200 ELSE 401)
    /\ UNCHANGED issued
    /\ UNCHANGED <<TRANSLATOR_AVAILABLE, tasks, poolQueue, documents, users, now,
                   wpc, wloc, mpc, mloc>>
    /\ UNCHANGED <<clientVars, poolVars, lockVars, pass, applied>>

\* POST /auth/signout with token.
SignOut(token) ==
    /\ h.pc = "idle"
    /\ LET verdict == verify_token(sessions, token)
       IN  IF verdict = "ok"
           THEN LET user_id == SessionOf(sessions, token).user_id
                    token_to_remove == first_token_of(sessions, user_id)
                IN  /\ sessions' = del_session(sessions, token_to_remove)
                    /\ h' = Respond("signout", token, 200)
           ELSE /\ sessions' = IF verdict = "expired" THEN del_session(sessions, token)
                               ELSE sessions
                /\ h' = Respond("signout", token, 401)
    /\ UNCHANGED issued
    /\ UNCHANGED <<TRANSLATOR_AVAILABLE, tasks, poolQueue, documents, users, now,
                   wpc, wloc, mpc, mloc>>
    /\ UNCHANGED <<clientVars, poolVars, lockVars, pass, applied>>

(* ------------------------------------------------------------------ Spec *)

\* The variables of the other specifications, at rest.
AuxIdle ==
    /\ temp_dir = [exists |-> FALSE, tree |-> {}]
    /\ cleanup_call = 0
    /\ lock = None
    /\ threads = <<>>
    /\ pass = <<>>
    /\ applied = <<>>
    /\ sessions = <<>>
    /\ issued = 0

\* The translator instance as the orchestrator's specification leaves it.
ClientIdle ==
    /\ supported = TRUE
    /\ service = "succeeds"
    /\ translator = "session"
    /\ translation_cache = <<>>
    /\ context_cache = <<>>
    /\ cpc = "idle"
    /\ frame = <<>>
    /\ log = <<>>

NoLocals == [user |-> None, doc |-> 0, total_segments |-> 0, translated_segments |-> 0,
             inflight |-> FALSE, output |-> FALSE, used |-> 0, error |-> None]

Init ==
    /\ TRANSLATOR_AVAILABLE \in BOOLEAN
    /\ tasks = <<>>
    /\ poolQueue = <<>>
    /\ documents = <<>>
    /\ users = [u \in Users |-> [tier |-> "free", translations_used |-> FreeLimit - 1]]
    /\ now = 0
    /\ h = Idle
    /\ wpc = [j \in TaskIds |-> "none"]
    /\ wloc = [j \in TaskIds |-> NoLocals]
    /\ mpc = [j \in TaskIds |-> "none"]
    /\ mloc = [j \in TaskIds |-> [start_time |-> 0, progress |-> 0]]
    /\ ClientIdle
    /\ AuxIdle

Next ==
    \/ \E size \in FileSizes : Upload(Owner, size)
    \/ \E u \in Users, d \in DocIds, file_exists \in BOOLEAN :
            TranslateRequest(u, d, file_exists)
    \/ \E ok \in BOOLEAN : SyncFinish(ok)
    \/ \E u \in Users, j \in TaskIds : CancelRequest(u, j)
    \/ CancelWrite
    \/ Return
    \/ \E j \in TaskIds : WorkerStart(j)
    \/ \E j \in TaskIds, file_exists \in BOOLEAN : WorkerLoad(j, file_exists)
    \/ \E j \in TaskIds : WorkerStartMonitor(j)
    \/ \E j \in TaskIds, n \in 0..MaxSeg, ok \in BOOLEAN : TranslateBegin(j, n, ok)
    \/ \E j \in TaskIds : ChunkDispatch(j)
    \/ \E j \in TaskIds : ChunkReturn(j)
    \/ \E j \in TaskIds, ok \in BOOLEAN : TranslateEnd(j, ok)
    \/ \E j \in TaskIds : WorkerRecord(j)
    \/ \E j \in TaskIds : WorkerUsage(j)
    \/ \E j \in TaskIds : WorkerComplete(j)
    \/ \E j \in TaskIds : WorkerFail(j)
    \/ \E j \in TaskIds : MonitorCheck(j)
    \/ \E j \in TaskIds : MonitorWrite(j)
    \/ Tick
    \/ Cleanup

Spec == Init /\ [][Next]_vars

\* The translator on its own: no job is ever submitted.
InitClient ==
    /\ TRANSLATOR_AVAILABLE = TRUE
    /\ tasks = <<>>
    /\ poolQueue = <<>>
    /\ documents = <<>>
    /\ users = [u \in Users |-> [tier |-> "free", translations_used |-> 0]]
    /\ now = 0
    /\ h = Idle
    /\ wpc = [j \in TaskIds |-> "none"]
    /\ wloc = [j \in TaskIds |-> NoLocals]
    /\ mpc = [j \in TaskIds |-> "none"]
    /\ mloc = [j \in TaskIds |-> [start_time |-> 0, progress |-> 0]]
    /\ supported \in BOOLEAN
    /\ service \in {"succeeds", "fails", "erratic"}
    /\ translator = IF supported THEN "session" ELSE None
    /\ translation_cache = <<>>
    /\ context_cache = <<>>
    /\ cpc = "idle"
    /\ frame = <<>>
    /\ log = <<>>
    /\ AuxIdle

NextClient ==
    \/ \E chunk \in Chunks : CallTranslateChunk(chunk)
    \/ \E t \in Texts, max_chunk_size \in ChunkSizes : CallTranslateWithContext(t, max_chunk_size)
    \/ ChunkEntry
    \/ \E outcome \in {"text", "raise", "none", "empty", "nonstr"} : ChunkAttempt(outcome)
    \/ ChunkExit

SpecClient == InitClient /\ [][NextClient]_vars

\* The pool with PoolJobs jobs: submissions of any size, the pool threads
\* and the steps of translate_docx on the shared working directory.
InitPool ==
    /\ TRANSLATOR_AVAILABLE = TRUE
    /\ tasks = <<>>
    /\ poolQueue = <<>>
    /\ documents = <<>>
    /\ users = [u \in Users |-> [tier |-> "free", translations_used |-> 0]]
    /\ now = 0
    /\ h = Idle
    /\ wpc = [w \in Translators |-> "none"]
    /\ wloc = [w \in Translators |-> FALSE]
    /\ mpc = <<>>
    /\ mloc = <<>>
    /\ ClientIdle
    /\ AuxIdle

NextPool ==
    \/ PoolSubmit(Owner)
    \/ PoolSyncBegin
    \/ PoolSyncEnd
    \/ \E j \in PoolIds : PoolStart(j)
    \/ \E w \in Translators : DocxPrepare(w)
    \/ \E w \in Translators : DocxUnpack(w)
    \/ \E w \in Translators : DocxPack(w)
    \/ \E w \in Translators : DocxCleanup(w)
    \/ \E j \in PoolIds, ok \in BOOLEAN : PoolFinish(j, ok)

SpecPool == InitPool /\ [][NextPool]_vars

\* The registry over time: jobs of every status, the clock and the cleanup.
NextRegistry ==
    \/ PoolSubmit(Owner)
    \/ \E j \in PoolIds : PoolStart(j)
    \/ \E j \in PoolIds : PoolTranslate(j)
    \/ \E j \in PoolIds, ok \in BOOLEAN : PoolFinish(j, ok)
    \/ \E j \in PoolIds : PoolCancel(j)
    \/ PoolTick
    \/ \E hours \in CleanupHourChoices : PoolCleanup(hours)

SpecRegistry == InitPool /\ [][NextRegistry]_vars

\* The lock discipline of the registry.
InitLock ==
    /\ TRANSLATOR_AVAILABLE = TRUE
    /\ tasks = <<>>
    /\ poolQueue = <<>>
    /\ documents = <<>>
    /\ users = [u \in Users |-> [tier |-> "free", translations_used |-> 0]]
    /\ now = 0
    /\ h = Idle
    /\ wpc = <<>>
    /\ wloc = <<>>
    /\ mpc = <<>>
    /\ mloc = <<>>
    /\ ClientIdle
    /\ temp_dir = [exists |-> FALSE, tree |-> {}]
    /\ cleanup_call = 0
    /\ lock = None
    /\ threads = [t \in LockThreads |-> [call |-> None, steps |-> <<>>]]
    /\ pass = <<>>
    /\ applied = <<>>
    /\ sessions = <<>>
    /\ issued = 0

NextLock ==
    \/ \E t \in LockThreads, call \in DOMAIN CallSteps : LockCall(t, call)
    \/ \E t \in LockThreads : LockAcquire(t)
    \/ \E t \in LockThreads : LockAccess(t)
    \/ \E t \in LockThreads : LockRelease(t)

SpecLock == InitLock /\ [][NextLock]_vars

\* One pass over a document of 1..MaxNodes paragraphs or text blocks.
InitPass ==
    /\ TRANSLATOR_AVAILABLE = TRUE
    /\ tasks = <<>>
    /\ poolQueue = <<>>
    /\ documents = <<>>
    /\ users = [u \in Users |-> [tier |-> "free", translations_used |-> 0]]
    /\ now = 0
    /\ h = Idle
    /\ wpc = <<>>
    /\ wloc = <<>>
    /\ mpc = <<>>
    /\ mloc = <<>>
    /\ ClientIdle
    /\ temp_dir = [exists |-> FALSE, tree |-> {}]
    /\ cleanup_call = 0
    /\ lock = None
    /\ threads = <<>>
    /\ \E kind \in {"docx", "pdf"}, n \in 1..MaxNodes :
        pass = [kind |-> kind, nodes |-> [k \in 1..n |-> "original"], i |-> 1,
                stage |-> 1, visited |-> <<>>, raised |-> {}, done |-> FALSE]
    /\ applied = <<>>
    /\ sessions = <<>>
    /\ issued = 0

NextPass ==
    \/ PassStage
    \/ PassSkip
    \/ PassRaise

SpecPass == InitPass /\ [][NextPass]_vars

\* The text functions of the translator, called on bounded inputs.
InitText ==
    /\ TRANSLATOR_AVAILABLE = TRUE
    /\ tasks = <<>>
    /\ poolQueue = <<>>
    /\ documents = <<>>
    /\ users = [u \in Users |-> [tier |-> "free", translations_used |-> 0]]
    /\ now = 0
    /\ h = Idle
    /\ wpc = <<>>
    /\ wloc = <<>>
    /\ mpc = <<>>
    /\ mloc = <<>>
    /\ ClientIdle
    /\ AuxIdle

NextText ==
    \/ \E text \in CharTexts : ShouldTranslate(text)
    \/ \E nodes \in Paragraphs, translated_words \in Translations :
           TranslateParagraph(nodes, translated_words)
    \/ \E text \in ParagraphTexts, runs \in RunLists :
           TranslateDocxParagraph(text, runs)

SpecText == InitText /\ [][NextText]_vars

\* The usage counter: background jobs and in-request translations of one
\* user.  users is loaded from USERS_FILE at start-up, so the count starts
\* anywhere up to the limit.
InitQuota ==
    /\ TRANSLATOR_AVAILABLE = TRUE
    /\ tasks = <<>>
    /\ poolQueue = <<>>
    /\ documents = <<>>
    /\ \E used \in 0..FreeLimit :
           users = [u \in Users |-> [tier |-> "free",
                       translations_used |-> IF u = Owner THEN used ELSE 0]]
    /\ now = 0
    /\ h = Idle
    /\ wpc = [w \in QuotaThreads |-> "none"]
    /\ wloc = [w \in QuotaThreads |-> 0]
    /\ mpc = <<>>
    /\ mloc = <<>>
    /\ ClientIdle
    /\ AuxIdle

NextQuota ==
    \/ QuotaSubmit(Owner)
    \/ QuotaSyncBegin(Owner)
    \/ \E j \in QuotaIds : QuotaStart(j)
    \/ \E w \in QuotaThreads, ok \in BOOLEAN : QuotaTranslated(w, ok)
    \/ \E w \in QuotaThreads : QuotaLoad(w, Owner)
    \/ \E w \in QuotaThreads : QuotaStore(w, Owner)
    \/ \E j \in QuotaIds : QuotaComplete(j)

SpecQuota == InitQuota /\ [][NextQuota]_vars

\* The registry under a fair pool: a job at the head of the queue gets a
\* free thread, translate_document returns or raises, and the worker runs
\* on to its last update_task.
FairPool ==
    \A j \in PoolIds :
        /\ WF_vars(PoolStart(j))
        /\ WF_vars(PoolTranslate(j))
        /\ WF_vars(\E ok \in BOOLEAN : PoolFinish(j, ok))

SpecFairPool == InitPool /\ [][NextRegistry]_vars /\ FairPool

\* Sign-in, sign-out and token verification.
InitSessions ==
    /\ TRANSLATOR_AVAILABLE = TRUE
    /\ tasks = <<>>
    /\ poolQueue = <<>>
    /\ documents = <<>>
    /\ users = [u \in Users |-> [tier |-> "free", translations_used |-> 0]]
    /\ now = 0
    /\ h = Idle
    /\ wpc = <<>>
    /\ wloc = <<>>
    /\ mpc = <<>>
    /\ mloc = <<>>
    /\ ClientIdle
    /\ AuxIdle

NextSessions ==
    \/ \E u \in Users : SignIn(u)
    \/ \E token \in Tokens : CurrentUser(token)
    \/ \E token \in Tokens : SignOut(token)
    \/ Return
    \/ Tick

SpecSessions == InitSessions /\ [][NextSessions]_vars

(* ========================================================== properties *)

Registered(j) == j \in DOMAIN tasks

\* The event loop takes up request op on id in this step.
Takes(op, id) == h.pc = "idle" /\ h'.pc # "idle" /\ h'.op = op /\ h'.id = id

\* C1: a job cancelled while still queued (no pool thread has picked it up)
\* keeps status cancelled in every later state: the worker never sets it to
\* processing.
C1_QueuedCancelIsFinal ==
    [][\A j \in TaskIds :
        (Registered(j) /\ tasks[j].status = "cancelled" /\ wpc[j] = "queued"
            /\ j \in DOMAIN tasks')
        => tasks'[j].status = "cancelled"]_vars

\* C2: every change of a job's status follows
\* queued -> processing -> {completed, failed, cancelled}, queued -> cancelled.
AllowedStatusChanges ==
    {<<"queued", "processing">>, <<"queued", "cancelled">>,
     <<"processing", "completed">>, <<"processing", "failed">>,
     <<"processing", "cancelled">>}

C2_StatusStateMachine ==
    [][\A j \in TaskIds :
        (Registered(j) /\ j \in DOMAIN tasks' /\ tasks'[j].status # tasks[j].status)
        => <<tasks[j].status, tasks'[j].status>> \in AllowedStatusChanges]_vars

\* C3: once the record of a job whose worker is translating says cancelled,
\* the worker sends no further segment to the external service (a call
\* already in flight may return).
C3_NoDispatchAfterCancel ==
    [][\A j \in TaskIds :
        (Registered(j) /\ tasks[j].status = "cancelled" /\ wpc[j] = "chunks")
        => ~(~wloc[j].inflight /\ wloc'[j].inflight)]_vars

\* C4: a cancel request on a job whose status is completed or failed is
\* answered with an error and changes no job record.
C4_FinishedCancelRejected ==
    [][\A j \in TaskIds :
        (Takes("cancel", j) /\ Registered(j)
            /\ tasks[j].status \in {"completed", "failed"})
        => (h'.pc = "respond" /\ h'.code \in {400, 403} /\ tasks' = tasks)]_vars

C4_Witness ==
    \E j \in TaskIds :
        /\ h = Respond("cancel", j, 400)
        /\ Registered(j)
        /\ tasks[j].status = "completed"

\* C5: while a job is processing, its progress never decreases.
C5_ProgressMonotone ==
    [][\A j \in TaskIds :
        (Registered(j) /\ j \in DOMAIN tasks'
            /\ tasks[j].status = "processing" /\ tasks'[j].status = "processing")
        => tasks'[j].progress >= tasks[j].progress]_vars

\* C6: a completed job has progress 100.
C6_CompletedProgress100 ==
    \A j \in DOMAIN tasks : tasks[j].status = "completed" => tasks[j].progress = 100

\* The job the translate handler creates in this step for document d.
Enqueues(d) ==
    \E j \in TaskIds :
        /\ ~Registered(j)
        /\ j \in DOMAIN tasks'
        /\ tasks'[j].status = "queued"
        /\ tasks'[j].progress = 0
        /\ tasks'[j].doc_info = d
        /\ poolQueue' = Append(poolQueue, j)
        /\ wpc'[j] = "queued"
        /\ h' = Respond("translate", d, 200)

LargeDocument(d) ==
    d \in DOMAIN documents /\ documents[d].file_size > BackgroundThresholdMB * MB

\* C10 as stated: every translate request on a document above 2 MB creates
\* a queued job with progress 0, hands it to the pool and returns queued.
C10_EveryLargeRequestQueued ==
    [][\A d \in DocIds :
        (Takes("translate", d) /\ LargeDocument(d)) => Enqueues(d)]_vars

\* C10 amended: every translate request on a document above 2 MB that the
\* handler does not refuse (503 translator unavailable, 403 not the owner or
\* limit reached, 404 source file missing) creates a queued job with progress
\* 0, hands it to the pool and returns queued; the caller's thread does not
\* translate.
C10_AcceptedLargeRequestQueued ==
    [][\A d \in DocIds :
        (Takes("translate", d) /\ LargeDocument(d)
            /\ ~(h'.pc = "respond" /\ h'.code \in {503, 403, 404}))
        => (Enqueues(d) /\ h'.pc # "sync")]_vars

C10_Witness ==
    \E d \in DOMAIN documents, j \in DOMAIN tasks :
        /\ h = Respond("translate", d, 200)
        /\ documents[d].file_size = BackgroundThresholdMB * MB + 1
        /\ tasks[j].status = "queued"
        /\ tasks[j].progress = 0
        /\ poolQueue = <<j>>

ChunkCalls == {i \in 1..Len(log) : log[i].op = "translate_chunk"}

\* C7 (as stated): a non-empty chunk that misses the cache, against a service
\* whose every call raises, costs exactly max_retries service calls and comes
\* back unchanged.
C7_NonEmptyChunkExhaustsRetries ==
    \A i \in ChunkCalls :
        (log[i].arg # "" /\ ~log[i].hit /\ service = "fails")
            => (log[i].calls = max_retries /\ log[i].result = log[i].arg)

\* C7 (amended): the same, for a chunk with a non-whitespace character on a
\* translator whose session can be constructed; every other failing call still
\* returns the chunk unchanged.
C7_RetryExhaustionFallback ==
    \A i \in ChunkCalls :
        (~log[i].hit /\ service = "fails")
            => /\ log[i].result = log[i].arg
               /\ (~Blank(log[i].arg) /\ supported) => log[i].calls = max_retries
               /\ (Blank(log[i].arg) \/ ~supported) => log[i].calls = 0

C7_Witness ==
    \E i \in ChunkCalls :
        /\ ~Blank(log[i].arg) /\ supported /\ ~log[i].hit /\ service = "fails"
        /\ log[i].calls = max_retries
        /\ log[i].result = log[i].arg

SuccessivePairs ==
    {i \in ChunkCalls : i + 1 \in ChunkCalls /\ log[i + 1].arg = log[i].arg /\ ~log[i].hit}

\* C8 (as stated): for any chunk, two successive translate_chunk calls against
\* a succeeding service make one service call in total and return equal values.
C8_AnyChunkOneCall ==
    \A i \in SuccessivePairs :
        service = "succeeds"
            => (log[i].calls + log[i + 1].calls = 1 /\ log[i + 1].result = log[i].result)

\* C8 (amended): the two values are always equal; the number of service calls
\* is one when the chunk has a non-whitespace character and the translator's
\* session can be constructed (the second call is then a cache hit), and zero
\* otherwise.
C8_CacheIdempotence ==
    \A i \in SuccessivePairs :
        service = "succeeds"
            => /\ log[i + 1].result = log[i].result
               /\ (~Blank(log[i].arg) /\ supported)
                    => (log[i].calls = 1 /\ log[i + 1].calls = 0 /\ log[i + 1].hit)
               /\ (Blank(log[i].arg) \/ ~supported)
                    => log[i].calls + log[i + 1].calls = 0

C8_Witness ==
    \E i \in SuccessivePairs :
        /\ service = "succeeds" /\ supported /\ ~Blank(log[i].arg)
        /\ log[i].calls = 1 /\ log[i + 1].calls = 0 /\ log[i + 1].hit
        /\ log[i + 1].result = Translated(log[i].arg)

SingleWord(chunk) == chunk \in SentencePool /\ Len(SentenceWords[chunk]) = 1

\* C9: every chunk translate_with_context sends to the service is at most
\* max_chunk_size characters long, unless it is one single word.
C9_ChunkWithinLimit ==
    (cpc # "idle" /\ frame.op = "translate_with_context")
        => \/ Len(frame.chunk) <= frame.max_chunk_size
           \/ SingleWord(frame.chunk)

\* C12: a completed job has an output reference, a failed job a non-empty
\* error message.
C12_FinishedJobsCarryOutcome ==
    \A j \in DOMAIN tasks :
        /\ tasks[j].status = "completed" => tasks[j].result # None
        /\ tasks[j].status = "failed" => tasks[j].error \notin {None, ""}

C12_Witness ==
    \E j \in DOMAIN tasks :
        /\ wpc[j] = "done"
        /\ tasks[j].status = "completed"
        /\ tasks[j].result = "out"

\* C13: a job whose processing has run past TRANSLATION_TIMEOUT is failed
\* with a timeout error; it never becomes completed.
C13_TimeoutFailsJob ==
    [][\A j \in TaskIds :
        (Registered(j) /\ j \in DOMAIN tasks' /\ mpc[j] # "none"
            /\ now - mloc[j].start_time > TRANSLATION_TIMEOUT
            /\ tasks[j].status = "processing")
        => tasks'[j].status # "completed"]_vars

\* C17: a background job whose worker met a missing, unreadable or
\* unsupported input ends failed, with a non-empty error and no output
\* reference on the job or on its document.
C17_StructuralErrorEndsFailed ==
    \A j \in DOMAIN tasks :
        (wpc[j] = "done" /\ wloc[j].error # None)
            => /\ tasks[j].status = "failed"
               /\ tasks[j].error \notin {None, ""}
               /\ tasks[j].result = None
               /\ documents[wloc[j].doc].translated_path = None

\* C20: a cancel request on a job whose status is neither queued nor
\* processing (cancelled included) is refused and changes no record.
C20_OnlyLiveJobsCancellable ==
    [][\A j \in TaskIds :
        (Takes("cancel", j) /\ Registered(j)
            /\ tasks[j].status \notin {"queued", "processing"})
        => (h'.pc = "respond" /\ h'.code \in {400, 403} /\ tasks' = tasks)]_vars

\* The translate_with_context calls that went through the grouping loop.
GroupedCalls ==
    {i \in 1..Len(log) : /\ log[i].op = "translate_with_context"
                         /\ Len(log[i].arg) > log[i].max_chunk_size
                         /\ log[i].chunks # <<>>}

\* C18: for a text longer than max_chunk_size the chunks, joined with single
\* spaces, are the sentences joined with single spaces; they are translated
\* one by one in order (each comes back translated or unchanged), and the
\* result is the translated chunks joined with single spaces in that order.
C18_ChunksPreserveText ==
    \A i \in GroupedCalls :
        LET e == log[i] IN
        /\ Join(e.chunks) = e.arg
        /\ Len(e.translated_chunks) = Len(e.chunks)
        /\ \A k \in 1..Len(e.chunks) :
              e.translated_chunks[k] \in {Translated(e.chunks[k]), e.chunks[k]}
        /\ e.result = Join(e.translated_chunks)
        /\ (service = "succeeds" /\ supported)
              => e.result = Join([k \in 1..Len(e.chunks) |-> Translated(e.chunks[k])])

C18_Witness ==
    \E i \in GroupedCalls :
        /\ service = "succeeds" /\ supported
        /\ log[i].chunks = <<"Go on.", "A b c d e.">>
        /\ log[i].result = "<Go on.> <A b c d e.>"

\* C11: the number of documents whose translation is executing never
\* exceeds MAX_CONCURRENT_TRANSLATIONS.
C11_ExecutingWithinPoolSize ==
    Cardinality(Executing) <= MAX_CONCURRENT_TRANSLATIONS

\* The working directory of w is in use: w has created it and not yet
\* removed it.
UsesWorkingDir(w) == wpc[w] \in {"unpack", "pack", "cleanup"}

\* C16: while a pool job uses its working directory, no other pool job
\* creates, overwrites, reads or deletes that directory.
C16_WorkingDirOwnedByOneJob ==
    [][\A w \in PoolIds :
        (wpc[w] \in {"prepare", "unpack", "pack", "cleanup"} /\ wpc'[w] # wpc[w])
            => \A v \in PoolIds \ {w} : ~UsesWorkingDir(v)]_vars

\* C14: cleanup_old_tasks(hours) removes exactly the records created more
\* than `hours` hours ago, whatever their status, and leaves the others
\* present and unchanged.
C14_CleanupRemovesExactlyOld ==
    [][\A hours \in CleanupHourChoices :
        cleanup_call' = hours
            => /\ DOMAIN tasks' =
                    {j \in DOMAIN tasks : ~(now - tasks[j].created_at > hours * 3600)}
               /\ \A j \in DOMAIN tasks' : tasks'[j] = tasks[j]]_vars

C14_Witness ==
    /\ cleanup_call = CleanupHours
    /\ 1 \notin DOMAIN tasks
    /\ wpc[1] = "prepare"
    /\ \E j \in DOMAIN tasks : tasks[j].created_at = now /\ tasks[j].status = "cancelled"

\* C15: every read or write of the registry is made by a thread that holds
\* TranslationTaskManager.lock.
C15_RegistryAccessUnderLock ==
    [][\A t \in LockThreads :
        (NextStep(t) \in {"read", "write"} /\ threads'[t] # threads[t])
            => lock = t]_vars

\* C19: a node whose translation raised keeps its original text, and the
\* pass still visits every node, in document order.
C19_FailedNodeKeptPassContinues ==
    /\ \A k \in pass.raised : pass.nodes[k] = "original"
    /\ pass.visited = [k \in 1..Len(pass.visited) |-> k]
    /\ pass.done => Len(pass.visited) = Len(pass.nodes)

\* The exclusions the claim lists, on the trimmed text.
ListedExclusion(raw) ==
    LET text == strip(raw) IN
    \/ Len(text) < 2
    \/ split_count(text) = 1 /\ (\E i \in DOMAIN text : text[i] = "@")
                             /\ (\E i \in DOMAIN text : text[i] = ".")
    \/ startswith(text, <<"h", "t", "t", "p", ":", "/", "/">>)
    \/ startswith(text, <<"h", "t", "t", "p", "s", ":", "/", "/">>)
    \/ startswith(text, <<"w", "w", "w", ".">>)
    \/ numeric_pattern(text)
    \/ ~\E i \in DOMAIN text : text[i] \in Letters

\* C21: should_translate_text returns False exactly for the listed
\* exclusions (empty or under 2 characters, e-mail token, URL, numeric or
\* punctuation only, no letter); every other text is eligible.
C21_FilterMatchesExclusions ==
    (applied # <<>> /\ applied.fn = "should_translate_text")
        => (applied.result = ~ListedExclusion(applied.text))

\* C22: a None, empty or non-string answer of the service counts as a
\* failed attempt: translate_chunk retries while attempts remain and falls
\* back to the original chunk only on the last attempt.
C22_InvalidAnswerRetried ==
    [][(cpc = "attempt" /\ frame' # frame
            /\ frame'.answer \in {"none", "empty", "nonstr"})
        => IF IsLastAttempt(frame.attempt)
           THEN cpc' = "exit" /\ frame'.ret = frame.chunk
           ELSE cpc' = "attempt" /\ frame'.attempt = frame.attempt + 1]_vars

\* C23: context_cache only ever holds valid translations: after a fallback
\* to the original chunk it has no entry for that chunk.
C23_CacheHoldsOnlyTranslations ==
    \A chunk \in DOMAIN context_cache : context_cache[chunk] = Translated(chunk)

C25_CachesAppendOnly ==
    [][/\ \A k \in DOMAIN context_cache :
              k \in DOMAIN context_cache' /\ context_cache'[k] = context_cache[k]
       /\ \A k \in DOMAIN translation_cache :
              k \in DOMAIN translation_cache'
                  /\ translation_cache'[k] = translation_cache[k]]_vars

C25_Witness ==
    /\ Cardinality(DOMAIN context_cache) >= 2
    /\ translation_cache # <<>>
    /\ Len(log) = MaxCalls
    /\ log[MaxCalls].hit

\* C26: with the default configuration a cache miss against a service that
\* always fails makes exactly 5 service calls.
C26_FiveCallsByDefault ==
    \A n \in DOMAIN log :
        (service = "fails" /\ supported /\ log[n].op = "translate_chunk"
            /\ ~log[n].hit /\ ~Blank(log[n].arg))
        => log[n].calls = 5

\* C27: the time slept before attempt k is base * 2^(k-1): each wait is
\* twice the one before it.
C27_ExponentialBackoff ==
    (cpc \in {"attempt", "exit"})
        => \A k \in 2..Len(frame.waits) : frame.waits[k] = 2 * frame.waits[k - 1]

\* C28: a sentence of several words that is longer than max_chunk_size is
\* never sent as one chunk (it is split on word boundaries).
C28_LongSentenceSplit ==
    (cpc # "idle" /\ frame.op = "translate_with_context")
        => \A k \in DOMAIN frame.chunks :
               ~(/\ frame.chunks[k] \in SentencePool
                 /\ Len(SentenceWords[frame.chunks[k]]) > 1
                 /\ Len(frame.chunks[k]) > frame.max_chunk_size)

\* The sentences of each chunk: the chunks cut the sentence list into
\* consecutive runs (a chunk that is no such run ends the list).
RECURSIVE ChunkParts(_, _)
ChunkParts(sentences, chunks) ==
    IF chunks = <<>> THEN <<>>
    ELSE LET ns == {n \in 1..Len(sentences) :
                        Join(SubSeq(sentences, 1, n)) = Head(chunks)}
         IN  IF ns = {} THEN <<>>
             ELSE LET n == CHOOSE n \in ns : TRUE
                  IN  <<SubSeq(sentences, 1, n)>>
                        \o ChunkParts(SubSeq(sentences, n + 1, Len(sentences)),
                                      Tail(chunks))

\* The running size of the grouping loop: the sentence lengths summed.
RECURSIVE RunningSize(_)
RunningSize(part) ==
    IF part = <<>> THEN 0 ELSE Len(Head(part)) + RunningSize(Tail(part))

\* C29: packing is greedy: the chunks are consecutive runs of the
\* sentences, none is empty, and for every two consecutive chunks the
\* first one plus the first sentence of the next exceeds max_chunk_size.
C29_GreedyPacking ==
    (cpc # "idle" /\ frame.chunks # <<>>)
        => LET parts == ChunkParts(frame.sentences, frame.chunks)
           IN  /\ Len(parts) = Len(frame.chunks)
               /\ \A k \in DOMAIN parts : parts[k] # <<>> /\ frame.chunks[k] # ""
               /\ \A k \in 1..(Len(parts) - 1) :
                      RunningSize(parts[k]) + Len(parts[k + 1][1])
                          > frame.max_chunk_size

C29_Witness ==
    /\ cpc = "exit"
    /\ Len(frame.chunks) = 2
    /\ frame.i = 2
    /\ frame.sentences = <<"Go on.", "Go on.">>

\* C30: after an eligible paragraph is rewritten, the words of its text
\* nodes are exactly the translated words: none dropped, none of the
\* original left.
C30_ParagraphIsTranslation ==
    (applied # <<>> /\ applied.fn = "translate_paragraph_node" /\ applied.eligible)
        => Words(applied.result) = applied.translated_words

\* C31: after a body paragraph with n >= 1 runs is rewritten, the
\* translated text carries the bold, italic, underline, font name and font
\* size of the original first run, for n = 1 as for n > 1.
C31_FirstRunStyleKept ==
    (applied # <<>> /\ applied.fn = "translate_docx_content" /\ applied.eligible)
        => /\ Len(applied.runs) = 1
           /\ applied.runs[1].bold = applied.original_runs[1].bold
           /\ applied.runs[1].italic = applied.original_runs[1].italic
           /\ applied.runs[1].underline = applied.original_runs[1].underline
           /\ applied.runs[1].font_name = applied.original_runs[1].font_name
           /\ applied.runs[1].font_size = applied.original_runs[1].font_size

\* C32: a job record has an error only if its status is failed and a
\* result only if its status is completed.
C32_OutcomeOnlyWithStatus ==
    \A j \in DOMAIN tasks :
        /\ tasks[j].error # None => tasks[j].status = "failed"
        /\ tasks[j].result # None => tasks[j].status = "completed"

\* C33: once the worker has marked a job failed, no thread writes the
\* job's progress or message again: while the record stays failed, both
\* keep the values the worker wrote.
C33_FailedRecordFrozen ==
    [][\A j \in DOMAIN tasks :
          (tasks[j].status = "failed" /\ j \in DOMAIN tasks'
              /\ tasks'[j].status = "failed")
          => /\ tasks'[j].progress = tasks[j].progress
             /\ tasks'[j].message = tasks[j].message]_vars

\* C34: no update of translations_used is lost: every worker that stores
\* its count leaves the user's translations_used one above what it was
\* just before, and a step of any other kind leaves it alone.
C34_EveryCompletionCounted ==
    [][/\ \A j \in QuotaIds :
              (wpc[j] = "store" /\ wpc'[j] = "complete")
              => users'[Owner].translations_used = users[Owner].translations_used + 1
       /\ \A j \in QuotaIds :
              (wpc[j] = "translate" /\ wpc'[j] = "done") => users' = users]_vars

\* C35: on a tier with a finite limit, translations_used never exceeds the
\* limit.
C35_UsageWithinLimit ==
    \A u \in Users : users[u].translations_used <= FreeLimit

\* C36: a job id that cleanup_old_tasks has removed is never in the
\* registry again: the steps of its still-running worker leave the
\* registry as it is, and no later step brings the id back.
C36_RemovedJobStaysRemoved ==
    [][\A j \in PoolIds :
          (wpc[j] # "none" /\ j \notin DOMAIN tasks)
          => /\ j \notin DOMAIN tasks'
             /\ wpc'[j] # wpc[j] => tasks' = tasks]_vars

C36_Witness ==
    /\ 1 \notin DOMAIN tasks
    /\ wpc[1] = "done"
    /\ \A j \in PoolIds \ {1} : wpc[j] = "none"
    /\ cleanup_call = 0
    /\ now = TickSeconds

\* C37 as stated: the worker's last step leaves completed or failed in the
\* job's record.
C37_WorkerWritesOutcome ==
    [][\A j \in PoolIds :
          (wpc[j] # "done" /\ wpc'[j] = "done")
          => (j \in DOMAIN tasks' /\ tasks'[j].status \in {"completed", "failed"})]_vars

\* C37: under a fair pool every job handed to it has its worker run to the
\* end and no record stays queued or processing forever; the worker's last
\* step writes completed or failed to the job's record when cleanup_old_tasks
\* has not removed the record meanwhile.
C37_EveryJobFinishes ==
    /\ <>[](\A j \in PoolIds :
               /\ wpc[j] \in {"none", "done"}
               /\ j \in DOMAIN tasks => tasks[j].status \notin {"queued", "processing"})
    /\ [][\A j \in PoolIds :
             (wpc[j] # "done" /\ wpc'[j] = "done" /\ j \in DOMAIN tasks)
             => tasks'[j].status \in {"completed", "failed"}]_vars

C37_Witness ==
    /\ \A j \in PoolIds : wpc[j] = "done" /\ j \in DOMAIN tasks
    /\ \E j \in PoolIds : tasks[j].status = "completed"
    /\ \E j \in PoolIds : tasks[j].status = "failed"

\* C38: after sign_out with token T, T is no longer a session, whatever
\* other sessions the user has, and every session other than T is kept.
C38_SignOutRemovesItsToken ==
    [][(h.pc = "idle" /\ h'.pc = "respond" /\ h'.op = "signout" /\ h'.code = 200)
        => /\ ~HasSession(sessions', h'.id)
           /\ \A i \in DOMAIN sessions :
                  sessions[i].token # h'.id => HasSession(sessions', sessions[i].token)]_vars

====
